---- MODULE Spec2Model ----
(***************************************************************************)
(* The cashier screens of InJapan Food as a state machine.                  *)
(*  - POS (src/src/components/kasir/POS.tsx): the React state of the        *)
(*    component (cart, receipt modal, payment tab), the in-flight            *)
(*    invocations of the asynchronous handleCheckout with the values their  *)
(*    closures captured, and the `transactions` collection of the store.    *)
(*  - TransactionsTable (src/src/components/kasir/TransactionsTable.tsx):   *)
(*    the rows it loaded from the store and the receipt it rebuilds.        *)
(***************************************************************************)
EXTENDS Integers, Sequences, FiniteSets, TLC

\* ------------------------------------------------------------------ bounds
\* Largest quantity a cart line is driven to (addToCart / updateQuantity +).
MaxQty == 2
\* Largest number of transactions stored or awaiting the store.
MaxTx == 1
\* Largest number of units in a cart that is only added to.
MaxUnits == 2
\* Latest instant the wall clock reaches.
MaxClock == 1
\* Largest number of appends stored or pending when checkouts are retried,
\* and the largest number of units of the cart that is checked out again.
MaxAppends == 2
MaxRetryUnits == 1
\* Largest number of documents of the `orders` collection.
MaxOrders == 2
\* Largest number of reads one view has outstanding.
MaxReads == 2
\* Largest number of years the report's selection moves away from this year.
MaxYearShift == 1
\* Largest number of reads outstanding while the selection is changed.
MaxNavReads == 1
\* Largest number of characters of a document id.
MaxIdLen == 7
\* Number of documents of the `transactions` collection the table pages
\* through, and the number of days a date input offers.
MaxStored == 12
MaxDay == 2
\* Largest number of fetches the table has outstanding when its pages are
\* turned, and the largest page number it reaches.
MaxTableReads == 1
MaxPage == 4

\* ------------------------------------------------------- the product list
\* The documents of the `products` collection, loaded once by fetchProducts:
\* the document id is the key, so ids are unique.
Products == {"A", "B"}
ProductName == [p \in Products |-> IF p = "A" THEN "Ramen" ELSE "Mochi"]
ProductPrice == [p \in Products |-> IF p = "A" THEN 500 ELSE 300]

\* The changes updateQuantity is called with: the - and + buttons pass -1 and
\* 1; -5 is a direct call that undershoots.
Changes == {-5, -1, 1}

\* The signed-in user useAuth() returns.
user == [displayName |-> "", email |-> "kasir@injapanfood.com", uid |-> "u1"]

\* user?.displayName || user?.email || 'Unknown'
Cashier(u) ==
    IF u.displayName # "" THEN u.displayName
    ELSE IF u.email # "" THEN u.email
    ELSE "Unknown"

VARIABLES
    cart,              \* useState<CartItem[]>: sequence of [id, name, price, quantity]
    showReceiptModal,  \* useState(false)
    currentReceipt,    \* useState<any>(null)
    inflight,          \* handleCheckout invocations suspended at `await addDoc`
    transactions,      \* the store's `transactions` collection, in append order
    lastOp,            \* the handler or promise callback that ran last: its
                       \* arguments and the title of the toast it raised
    paymentTab,        \* <Tabs defaultValue="cash">: the payment tab on display
    now,               \* the wall clock new Date() reads
    tableTransactions, \* TransactionsTable: useState<Transaction[]>([])
    selectedTransaction,   \* TransactionsTable: useState<Transaction | null>(null)
    tableShowReceiptModal, \* TransactionsTable: useState(false)
    tableLoading,      \* TransactionsTable: const [loading, setLoading]
    tablePending,      \* TransactionsTable: the fetchTransactions invocations
                       \* suspended at an `await getDocs`
    tableMounted,      \* the TransactionsTable component exists
    lastVisible,       \* TransactionsTable: useState<any>(null)
    firstVisible,      \* TransactionsTable: useState<any>(null)
    currentPage,       \* TransactionsTable: useState(1)
    hasMore,           \* TransactionsTable: useState(false)
    startDate,         \* TransactionsTable: useState<string>('')
    endDate,           \* TransactionsTable: useState<string>('')
    chartMounted,      \* the MonthlySalesChart component exists
    reportMounted,     \* the SalesRevenueReport component exists
    dashMounted,       \* the KasirDashboard component exists
    posLoading,        \* POS: const [loading, setLoading]
    productsPending,   \* POS: fetchProducts is suspended at `await getDocs`
    orders,            \* the store's `orders` collection
    storedReports,     \* the store's `monthly_reports` collection
    docIds,            \* the store's `transactions`: the id text of each document
    chartSelectedYear, \* MonthlySalesChart: selectedYear
    chartData,         \* MonthlySalesChart: chartData
    chartLoading,      \* MonthlySalesChart: loading
    chartPending,      \* MonthlySalesChart: fetchMonthlyData invocations
                       \* suspended at `await getDocs`
    reportSelectedYear,    \* SalesRevenueReport: selectedYear
    reportSelectedMonth,   \* SalesRevenueReport: selectedMonth
    monthlyReports,    \* SalesRevenueReport: monthlyReports
    reportChartData,   \* SalesRevenueReport: chartData
    reportLoading,     \* SalesRevenueReport: loading
    reportPending,     \* SalesRevenueReport: fetch invocations suspended at
                       \* an `await getDocs`
    activeTab,         \* SalesRevenueReport: activeTab
    reportTransactions,    \* SalesRevenueReport: transactions
    stats,             \* KasirDashboard: stats
    recentTransactions,    \* KasirDashboard: recentTransactions
    dailySalesData,    \* KasirDashboard: dailySalesData
    dashLoading,       \* KasirDashboard: loading
    dashPending,       \* KasirDashboard: the fetchDashboardData invocation
                       \* and the reads it awaits
    readFailure,       \* per reporting view: what a failed read left on display
    authUser,          \* KasirLayout: `user` of useAuth()
    authLoading,       \* KasirLayout: `loading` of useAuth()
    isAdmin,           \* KasirLayout: useState(false)
    layoutLoading,     \* KasirLayout: const [loading, setLoading] = useState(true)
    layoutShown,       \* KasirLayout: what its latest render returned
    layoutEffect       \* KasirLayout: the effect of [user, authLoading] is due

posVars == <<cart, showReceiptModal, currentReceipt, inflight, transactions>>
\* The pagination and the date filter of the table.
pageVars == <<lastVisible, firstVisible, currentPage, hasMore, startDate,
              endDate>>
tableVars == <<tableTransactions, selectedTransaction, tableShowReceiptModal,
               tableLoading, tablePending, tableMounted, pageVars>>
\* What no POS handler writes: the payment tab, the clock, the other screens.
loadVars == <<posLoading, productsPending>>
storeVars == <<orders, storedReports, docIds>>
layoutVars == <<authUser, authLoading, isAdmin, layoutLoading, layoutShown,
                layoutEffect>>
chartVars == <<chartSelectedYear, chartData, chartLoading, chartPending,
               chartMounted>>
reportVars == <<reportSelectedYear, reportSelectedMonth, monthlyReports, reportChartData,
                reportLoading, reportPending, activeTab, reportTransactions,
                reportMounted>>
dashVars == <<stats, recentTransactions, dailySalesData, dashLoading,
              dashPending, dashMounted>>
reportingVars == <<loadVars, storeVars, layoutVars, chartVars, reportVars, dashVars,
                   readFailure>>
posFrame == <<paymentTab, now, tableVars, reportingVars>>
vars == <<posVars, lastOp, paymentTab, now, tableVars, reportingVars>>

PaymentTabs == {"cash", "card"}
ReportingViews == {"report", "dashboard", "chart"}

\* new Date(): the day the views are opened (month is 0-based as getMonth()).
Today == [year |-> 2026, month |-> 10, day |-> 15]

\* The years of a year Select (chart and report page):
\* Array.from({ length: 5 }, (_, i) => new Date().getFullYear() - i)
YearsOffered == 5
years == {Today.year - i : i \in 0..(YearsOffered - 1)}

\* KasirDashboard: the initial value of `stats`.
NoStats == [totalSales |-> 0, totalRevenue |-> 0, totalCustomers |-> 0,
            totalProducts |-> 0, averageOrderValue |-> 0]
\* No fetchDashboardData invocation is suspended.
NoFetch == [stage |-> "none"]
NoTransaction == [id |-> 0]
\* null as a pagination cursor; '' as the value of a date input.
NoDoc == [id |-> 0]
NoDate == 0

NoReceipt == [id |-> 0]

\* The characters an id is made of: a lower-case letter, an upper-case
\* letter and a digit.
IdChars == {"a", "Z", "7"}
\* The id text of the documents when it is of no interest.
AutoIds == <<<<"a", "7">>, <<"Z", "7">>, <<"7", "7">>>>
Op(name, id, change, toast) ==
    [op |-> name, id |-> id, change |-> change, toast |-> toast]

\* ------------------------------------------------------------ pure helpers
Max(a, b) == IF a >= b THEN a ELSE b

\* Array.prototype.reduce((total, item) => total + item.price * item.quantity, 0)
RECURSIVE ReduceTotal(_, _, _)
ReduceTotal(c, i, total) ==
    IF i > Len(c) THEN total
    ELSE ReduceTotal(c, i + 1, total + (c[i].price * c[i].quantity))

\* cartTotal with the fold started at the second line (reduce without its
\* initial value takes the first element as the accumulator).
cartTotalSkipsFirst(c) == ReduceTotal(c, 2, 0)

\* const cartTotal = cart.reduce(..., 0), recomputed from `cart` on every render
cartTotal(c) == ReduceTotal(c, 1, 0)

\* prevCart.find(item => item.id === id) is not undefined
HasItem(c, id) == \E i \in 1..Len(c) : c[i].id = id

\* prevCart.filter(item => item.id !== id)
RECURSIVE FilterOut(_, _)
FilterOut(c, id) ==
    IF c = <<>> THEN <<>>
    ELSE IF Head(c).id # id THEN <<Head(c)>> \o FilterOut(Tail(c), id)
    ELSE FilterOut(Tail(c), id)

\* AddUpdater that moves the line it increments to the end of the cart.
AddUpdaterMoveToEnd(prevCart, product) ==
    IF HasItem(prevCart, product)
    THEN LET k == CHOOSE i \in 1..Len(prevCart) : prevCart[i].id = product
         IN Append(FilterOut(prevCart, product),
                   [prevCart[k] EXCEPT !.quantity = prevCart[k].quantity + 1])
    ELSE Append(prevCart, [id |-> product, name |-> ProductName[product],
                           price |-> ProductPrice[product], quantity |-> 1])

\* AddUpdater without the lookup of an existing line.
AddUpdaterAlwaysAppend(prevCart, product) ==
    Append(prevCart, [id |-> product, name |-> ProductName[product],
                      price |-> ProductPrice[product], quantity |-> 1])

\* The updater addToCart hands to setCart.
AddUpdater(prevCart, product) ==
    IF HasItem(prevCart, product)
    THEN [i \in 1..Len(prevCart) |->
            IF prevCart[i].id = product
            THEN [prevCart[i] EXCEPT !.quantity = prevCart[i].quantity + 1]
            ELSE prevCart[i]]
    ELSE Append(prevCart, [id |-> product, name |-> ProductName[product],
                           price |-> ProductPrice[product], quantity |-> 1])

\* QuantityUpdater clamping at 0 instead of 1.
QuantityUpdaterFloorZero(prevCart, id, change) ==
    [i \in 1..Len(prevCart) |->
        IF prevCart[i].id = id
        THEN [prevCart[i] EXCEPT !.quantity = Max(0, prevCart[i].quantity + change)]
        ELSE prevCart[i]]

\* The updater updateQuantity hands to setCart.
QuantityUpdater(prevCart, id, change) ==
    [i \in 1..Len(prevCart) |->
        IF prevCart[i].id = id
        THEN [prevCart[i] EXCEPT !.quantity = Max(1, prevCart[i].quantity + change)]
        ELSE prevCart[i]]

\* RemoveUpdater that drops the first line whatever its id.
RemoveUpdaterDropsHead(prevCart, id) ==
    IF prevCart = <<>> THEN <<>> ELSE Tail(prevCart)

\* The updater removeFromCart hands to setCart.
RemoveUpdater(prevCart, id) == FilterOut(prevCart, id)

\* cart.map(item => ({id, name, price, quantity}))
ItemsCopy(c) ==
    [i \in 1..Len(c) |-> [id |-> c[i].id, name |-> c[i].name,
                          price |-> c[i].price, quantity |-> c[i].quantity]]

\* The `transaction` object handleCheckout builds before the append; t is
\* the reading of new Date().toISOString() at that moment.
BuildTransaction(c, u, t) ==
    [items |-> ItemsCopy(c),
     totalAmount |-> cartTotal(c),
     cashier |-> Cashier(u),
     cashierId |-> u.uid,
     status |-> "completed",
     paymentMethod |-> "Cash",
     created_at |-> t]

\* A receipt whose total leaves the quantities out.
BuildReceiptUnitTotal(docId, closureCart, u, t) ==
    [id |-> docId,
     items |-> closureCart,
     totalAmount |-> cartTotal([i \in 1..Len(closureCart) |->
                                   [closureCart[i] EXCEPT !.quantity = 1]]),
     cashier |-> Cashier(u),
     timestamp |-> t,
     paymentMethod |-> "Cash",
     storeName |-> "InJapan Food",
     storeAddress |-> "Tokyo, Japan",
     storePhone |-> "0812-XXXX-XXXX"]

\* The `receiptData` object handleCheckout builds after the append resolved:
\* `cart` and `cartTotal` are the values the invocation's closure captured;
\* t is the reading of new Date().toISOString() after the await.
BuildReceipt(docId, closureCart, u, t) ==
    [id |-> docId,
     items |-> closureCart,
     totalAmount |-> cartTotal(closureCart),
     cashier |-> Cashier(u),
     timestamp |-> t,
     paymentMethod |-> "Cash",
     storeName |-> "InJapan Food",
     storeAddress |-> "Tokyo, Japan",
     storePhone |-> "0812-XXXX-XXXX"]

\* The document the store writes for an append: the data handed to addDoc
\* under a generated id.
StoredDoc(docId, data) ==
    [id |-> docId, items |-> data.items, totalAmount |-> data.totalAmount,
     cashier |-> data.cashier, cashierId |-> data.cashierId,
     status |-> data.status, paymentMethod |-> data.paymentMethod,
     created_at |-> data.created_at]

\* Remove element i of a sequence.
RemoveAt(s, i) == SubSeq(s, 1, i - 1) \o SubSeq(s, i + 1, Len(s))

\* --------------------------------------------------------------- KasirLayout
\* useAuth(): nobody is signed in, or a user with an email ('' when the
\* account has none).
NoUser == [signedIn |-> FALSE]
Emails == {"admin@gmail.com", "ari4rich@gmail.com", "kasir@gmail.com", ""}
Users == [signedIn : {TRUE}, email : Emails]

\* const adminEmails = ['admin@gmail.com', 'ari4rich@gmail.com']
adminEmails == {"admin@gmail.com", "ari4rich@gmail.com"}

\* What KasirLayout returns in a render with these values.
Render(account, authWaits, admin, waits) ==
    IF waits \/ authWaits THEN "spinner"
    ELSE IF account = NoUser THEN "login"
    ELSE IF ~admin THEN "denied"
    ELSE "children"

\* The layout is mounted with an admin signed in and verified: the cashier
\* screens are on display.
LayoutReady ==
    /\ authUser = [signedIn |-> TRUE, email |-> "admin@gmail.com"]
    /\ authLoading = FALSE
    /\ isAdmin = TRUE
    /\ layoutLoading = FALSE
    /\ layoutShown = "children"
    /\ layoutEffect = FALSE

\* The auth context delivers a new user or loading state: KasirLayout
\* renders with the state it has, and the effect of [user, authLoading] is
\* scheduled to run after that render.
authChanged(account, waits) ==
    /\ ~layoutEffect
    /\ <<account, waits>> # <<authUser, authLoading>>
    /\ authUser' = account
    /\ authLoading' = waits
    /\ layoutShown' = Render(account, waits, isAdmin, layoutLoading)
    /\ layoutEffect' = TRUE
    /\ lastOp' = Op("authChanged", "", 0, "")
    /\ UNCHANGED <<isAdmin, layoutLoading>>
    /\ UNCHANGED <<posVars, paymentTab, now, tableVars, loadVars, storeVars,
                   chartVars, reportVars, dashVars, readFailure>>

\* The effect runs: if (!authLoading) { checkAdminStatus(); setLoading(false) }
\* where checkAdminStatus sets isAdmin only when a user is signed in; the
\* layout renders again with the new state.
layoutEffectRun ==
    /\ layoutEffect
    /\ layoutEffect' = FALSE
    /\ IF ~authLoading
       THEN /\ isAdmin' = IF authUser # NoUser
                          THEN authUser.email \in adminEmails
                          ELSE isAdmin
            /\ layoutLoading' = FALSE
       ELSE UNCHANGED <<isAdmin, layoutLoading>>
    /\ layoutShown' = Render(authUser, authLoading, isAdmin', layoutLoading')
    /\ lastOp' = Op("layoutEffectRun", "", 0, "")
    /\ UNCHANGED <<authUser, authLoading>>
    /\ UNCHANGED <<posVars, paymentTab, now, tableVars, loadVars, storeVars,
                   chartVars, reportVars, dashVars, readFailure>>

\* ------------------------------------------------------------------- Init
\* Every view: the POS is mounted with its products loaded and an empty
\* cart, no other view is mounted.
InitScreens ==
    /\ cart = <<>>
    /\ showReceiptModal = FALSE
    /\ currentReceipt = NoReceipt
    /\ inflight = <<>>
    /\ lastOp = Op("mount", "", 0, "")
    /\ paymentTab = "cash"
    /\ now = 0
    /\ tableTransactions = <<>>
    /\ selectedTransaction = NoTransaction
    /\ tableShowReceiptModal = FALSE
    /\ tableLoading = FALSE
    /\ tablePending = <<>>
    /\ lastVisible = NoDoc
    /\ firstVisible = NoDoc
    /\ currentPage = 1
    /\ hasMore = FALSE
    /\ startDate = NoDate
    /\ endDate = NoDate
    /\ tableMounted = FALSE
    /\ chartMounted = FALSE
    /\ reportMounted = FALSE
    /\ dashMounted = FALSE
    /\ posLoading = FALSE
    /\ productsPending = FALSE
    /\ chartSelectedYear = Today.year
    /\ chartData = <<>>
    /\ chartLoading = FALSE
    /\ chartPending = <<>>
    /\ reportSelectedYear = Today.year
    /\ reportSelectedMonth = Today.month
    /\ monthlyReports = <<>>
    /\ reportChartData = <<>>
    /\ reportLoading = FALSE
    /\ reportPending = <<>>
    /\ activeTab = "overview"
    /\ reportTransactions = <<>>
    /\ stats = NoStats
    /\ recentTransactions = <<>>
    /\ dailySalesData = <<>>
    /\ dashLoading = FALSE
    /\ dashPending = NoFetch
    /\ readFailure = [v \in ReportingViews |-> "none"]

\* The views on a store without transactions.
InitViews ==
    /\ InitScreens
    /\ LayoutReady
    /\ transactions = <<>>

\* The store holds no order and no monthly report yet.
Init ==
    /\ InitViews
    /\ orders = <<>>
    /\ storedReports = <<>>
    /\ docIds = AutoIds

\* ---------------------------------------------------------- cart handlers
\* onClick={() => addToCart(product)}
addToCart(product) ==
    /\ cart' = AddUpdater(cart, product)
    /\ lastOp' = Op("addToCart", product, 0, "Produk ditambahkan")
    /\ UNCHANGED posFrame
    /\ UNCHANGED <<showReceiptModal, currentReceipt, inflight, transactions>>

updateQuantity(id, change) ==
    /\ cart' = QuantityUpdater(cart, id, change)
    /\ lastOp' = Op("updateQuantity", id, change, "")
    /\ UNCHANGED posFrame
    /\ UNCHANGED <<showReceiptModal, currentReceipt, inflight, transactions>>

removeFromCart(id) ==
    /\ cart' = RemoveUpdater(cart, id)
    /\ lastOp' = Op("removeFromCart", id, 0, "")
    /\ UNCHANGED posFrame
    /\ UNCHANGED <<showReceiptModal, currentReceipt, inflight, transactions>>

\* "Kosongkan Keranjang": onClick={() => setCart([])}, disabled on an empty cart
clearCart ==
    /\ Len(cart) # 0
    /\ cart' = <<>>
    /\ lastOp' = Op("clearCart", "", 0, "")
    /\ UNCHANGED posFrame
    /\ UNCHANGED <<showReceiptModal, currentReceipt, inflight, transactions>>

\* handleCheckout without the empty-cart return.
handleCheckoutNoGuard ==
    /\ inflight' = Append(inflight,
                          [cart |-> cart,
                           transaction |-> BuildTransaction(cart, user, now)])
    /\ lastOp' = Op("handleCheckout", "", 0, "")
    /\ UNCHANGED posFrame
    /\ UNCHANGED <<cart, showReceiptModal, currentReceipt, transactions>>

\* handleCheckout that clears the cart and opens the receipt before the
\* append has resolved.
handleCheckoutOptimistic ==
    IF Len(cart) = 0
    THEN /\ lastOp' = Op("handleCheckout", "", 0, "Keranjang kosong")
         /\ UNCHANGED <<cart, showReceiptModal, currentReceipt, inflight,
                        transactions>>
         /\ UNCHANGED posFrame
    ELSE /\ inflight' = Append(inflight,
                               [cart |-> cart,
                                transaction |-> BuildTransaction(cart, user, now)])
         /\ currentReceipt' = BuildReceipt(Len(transactions) + 1, cart, user, now)
         /\ showReceiptModal' = TRUE
         /\ cart' = <<>>
         /\ lastOp' = Op("handleCheckout", "", 0, "")
         /\ UNCHANGED posFrame
         /\ UNCHANGED transactions

\* handleCheckout that issues no append when the store already holds a
\* transaction of the same items and total.
handleCheckoutDedup ==
    IF Len(cart) = 0
    THEN /\ lastOp' = Op("handleCheckout", "", 0, "Keranjang kosong")
         /\ UNCHANGED <<cart, showReceiptModal, currentReceipt, inflight,
                        transactions>>
         /\ UNCHANGED posFrame
    ELSE /\ inflight' =
               IF \E i \in 1..Len(transactions) :
                      /\ transactions[i].items = ItemsCopy(cart)
                      /\ transactions[i].totalAmount = cartTotal(cart)
               THEN inflight
               ELSE Append(inflight,
                           [cart |-> cart,
                            transaction |-> BuildTransaction(cart, user, now)])
         /\ lastOp' = Op("handleCheckout", "", 0, "")
         /\ UNCHANGED posFrame
         /\ UNCHANGED <<cart, showReceiptModal, currentReceipt, transactions>>

\* --------------------------------------------------------------- checkout
\* handleCheckout up to its first suspension: the empty-cart return, or the
\* construction of `transaction` and the call of addDoc. The invocation that
\* awaits addDoc keeps the `cart` of the render it was created in.
handleCheckout ==
    IF Len(cart) = 0
    THEN /\ lastOp' = Op("handleCheckout", "", 0, "Keranjang kosong")
         /\ UNCHANGED <<cart, showReceiptModal, currentReceipt, inflight,
                        transactions>>
         /\ UNCHANGED posFrame
    ELSE /\ inflight' = Append(inflight,
                               [cart |-> cart,
                                transaction |-> BuildTransaction(cart, user, now)])
         /\ lastOp' = Op("handleCheckout", "", 0, "")
         /\ UNCHANGED posFrame
         /\ UNCHANGED <<cart, showReceiptModal, currentReceipt, transactions>>

\* StoreAppend of a document whose items are those of the cart at the time
\* of the write instead of the data handed to addDoc.
StoreAppendLiveCart(data) ==
    Append(transactions,
           StoredDoc(Len(transactions) + 1, [data EXCEPT !.items = ItemsCopy(cart)]))

\* A store that writes an append over its latest document.
StoreAppendOverwrites(data) ==
    IF transactions = <<>>
    THEN Append(transactions, StoredDoc(1, data))
    ELSE [transactions EXCEPT ![Len(transactions)] =
              StoredDoc(Len(transactions), data)]

\* The store writes the document of an append under a generated id.
StoreAppend(data) == Append(transactions, StoredDoc(Len(transactions) + 1, data))

\* addDocResolved without setCart([]).
addDocResolvedKeepsCart(i) ==
    /\ transactions' = StoreAppend(inflight[i].transaction)
    /\ currentReceipt' = BuildReceipt(Len(transactions) + 1, inflight[i].cart, user, now)
    /\ showReceiptModal' = TRUE
    /\ inflight' = RemoveAt(inflight, i)
    /\ lastOp' = Op("addDocResolved", "", 0, "Transaksi berhasil")
    /\ UNCHANGED posFrame
    /\ UNCHANGED cart

\* `await addDoc(...)` resolves with docRef (the store has written the
\* document): the rest of the try block runs.
addDocResolved(i) ==
    /\ transactions' = StoreAppend(inflight[i].transaction)
    /\ currentReceipt' = BuildReceipt(Len(transactions) + 1, inflight[i].cart, user, now)
    /\ showReceiptModal' = TRUE
    /\ cart' = <<>>
    /\ inflight' = RemoveAt(inflight, i)
    /\ lastOp' = Op("addDocResolved", "", 0, "Transaksi berhasil")
    /\ UNCHANGED posFrame

\* addDocRejected whose catch block also clears the cart.
addDocRejectedClearsCart(i, written) ==
    /\ transactions' = IF written THEN StoreAppend(inflight[i].transaction)
                       ELSE transactions
    /\ inflight' = RemoveAt(inflight, i)
    /\ cart' = <<>>
    /\ lastOp' = Op("addDocRejected", "", 0, "Transaksi gagal")
    /\ UNCHANGED posFrame
    /\ UNCHANGED <<showReceiptModal, currentReceipt>>

\* A catch block that issues the rejected append again.
addDocRejectedRetries(i, written) ==
    /\ transactions' = IF written THEN StoreAppend(inflight[i].transaction)
                       ELSE transactions
    /\ inflight' = Append(RemoveAt(inflight, i), inflight[i])
    /\ lastOp' = Op("addDocRejected", "", 0, "Transaksi gagal")
    /\ UNCHANGED posFrame
    /\ UNCHANGED <<cart, showReceiptModal, currentReceipt>>

\* `await addDoc(...)` rejects: the catch block runs. The store reports the
\* failure without having written the document, or after having written it.
addDocRejected(i, written) ==
    /\ transactions' = IF written THEN StoreAppend(inflight[i].transaction)
                       ELSE transactions
    /\ inflight' = RemoveAt(inflight, i)
    /\ lastOp' = Op("addDocRejected", "", 0, "Transaksi gagal")
    /\ UNCHANGED posFrame
    /\ UNCHANGED <<cart, showReceiptModal, currentReceipt>>

\* ReceiptModal onClose={() => setShowReceiptModal(false)}
closeReceipt ==
    /\ showReceiptModal
    /\ showReceiptModal' = FALSE
    /\ lastOp' = Op("closeReceipt", "", 0, "")
    /\ UNCHANGED posFrame
    /\ UNCHANGED <<cart, currentReceipt, inflight, transactions>>

\* <TabsTrigger value="cash"> / <TabsTrigger value="card">: the cashier
\* selects a payment tab. Each tab holds a button bound to handleCheckout.
selectTab(tab) ==
    /\ paymentTab # tab
    /\ paymentTab' = tab
    /\ lastOp' = Op("selectTab", tab, 0, "")
    /\ UNCHANGED <<posVars, now, tableVars, reportingVars>>

\* Time passes: a later new Date() reads a later instant.
Tick ==
    /\ now' = now + 1
    /\ lastOp' = Op("Tick", "", 0, "")
    /\ UNCHANGED <<posVars, paymentTab, tableVars, reportingVars>>

\* ------------------------------------------------------ transactions table
pageSize == 10

\* orderBy('created_at', 'desc'): the later document first; documents of one
\* instant in the descending order of their ids.
Newer(a, b) ==
    \/ a.created_at > b.created_at
    \/ a.created_at = b.created_at /\ a.id > b.id

RECURSIVE OrderByCreatedAtDesc(_)
OrderByCreatedAtDesc(docs) ==
    IF docs = {} THEN <<>>
    ELSE LET first == CHOOSE d \in docs : \A e \in docs \ {d} : Newer(d, e)
         IN <<first>> \o OrderByCreatedAtDesc(docs \ {first})

Limit(s, n) == SubSeq(s, 1, IF Len(s) < n THEN Len(s) ELSE n)

Range(s) == {s[i] : i \in 1..Len(s)}

\* querySnapshot.docs.map(doc => ({ id: doc.id, ...doc.data() }))
MapDocs(docs) == docs

\* new Date(date).setHours(0, 0, 0, 0) and .setHours(23, 59, 59, 999): the
\* first and the last instant of a day; day 1 is the day of instant 0.
DayStart(day) == 2 * (day - 1)
DayEnd(day) == 2 * (day - 1) + 1

\* let baseQuery = [orderBy('created_at', 'desc')], with the two where
\* clauses in front when both dates are set.
baseQuery(start, end) ==
    IF start # NoDate /\ end # NoDate
    THEN [filtered |-> TRUE, from |-> DayStart(start), to |-> DayEnd(end)]
    ELSE [filtered |-> FALSE, from |-> 0, to |-> 0]

\* The query fetchTransactions(direction) builds in a render with these
\* dates and cursors.
PageQuery(direction, start, end, last, first) ==
    IF direction = "next" /\ last # NoDoc
    THEN [base |-> baseQuery(start, end), cursor |-> "startAfter",
          at |-> last, limit |-> pageSize]
    ELSE IF direction = "prev" /\ first # NoDoc
    THEN [base |-> baseQuery(start, end), cursor |-> "endBefore",
          at |-> first, limit |-> pageSize]
    ELSE [base |-> baseQuery(start, end), cursor |-> "none",
          at |-> NoDoc, limit |-> pageSize]

\* The query that looks for one document after the last of a page.
CheckMoreQuery(base, docs) ==
    [base |-> base, cursor |-> "startAfter", at |-> docs[Len(docs)],
     limit |-> 1]

\* limitToLast(n)
LimitToLast(s, n) ==
    SubSeq(s, IF Len(s) < n THEN 1 ELSE Len(s) - n + 1, Len(s))

\* The snapshot of a query: the documents within the where clauses, in the
\* order of orderBy, after (startAfter) or before (endBefore) the cursor,
\* the first (limit) or the last (limitToLast) of them.
getDocs(coll, q) ==
    LET matching == {d \in Range(coll) :
                        \/ ~q.base.filtered
                        \/ /\ d.created_at >= q.base.from
                           /\ d.created_at <= q.base.to}
    IN CASE q.cursor = "startAfter" ->
              Limit(OrderByCreatedAtDesc({d \in matching : Newer(q.at, d)}),
                    q.limit)
         [] q.cursor = "endBefore" ->
              LimitToLast(
                  OrderByCreatedAtDesc({d \in matching : Newer(d, q.at)}),
                  q.limit)
         [] OTHER -> Limit(OrderByCreatedAtDesc(matching), q.limit)

\* fetchTransactions(direction) up to its first `await getDocs(q)`.
Fetch(direction, start, end, last, first) ==
    [stage |-> "page", direction |-> direction,
     query |-> PageQuery(direction, start, end, last, first), docs |-> <<>>]

\* The table is mounted: its state is that of a new component and the
\* effect calls fetchTransactions(), which sets the loading flag and issues
\* the query of the first page. What an earlier instance of the component
\* still awaited no longer reaches any state.
mountTable ==
    /\ tableTransactions' = <<>>
    /\ selectedTransaction' = NoTransaction
    /\ tableShowReceiptModal' = FALSE
    /\ tableLoading' = TRUE
    /\ lastVisible' = NoDoc
    /\ firstVisible' = NoDoc
    /\ currentPage' = 1
    /\ hasMore' = FALSE
    /\ startDate' = NoDate
    /\ endDate' = NoDate
    /\ tablePending' = <<Fetch("next", NoDate, NoDate, NoDoc, NoDoc)>>
    /\ tableMounted' = TRUE
    /\ lastOp' = Op("mountTable", "", 0, "")
    /\ UNCHANGED <<posVars, paymentTab, now, reportingVars>>

\* setStartDate / setEndDate and the effect of the next render, which calls
\* fetchTransactions() with the cursors of that render.
dateChanged(start, end, op) ==
    /\ tableMounted
    /\ startDate' = start
    /\ endDate' = end
    /\ tableLoading' = TRUE
    /\ tablePending' = Append(tablePending,
                              Fetch("next", start, end, lastVisible,
                                    firstVisible))
    /\ lastOp' = Op(op, "", 0, "")
    /\ UNCHANGED <<tableTransactions, selectedTransaction,
                   tableShowReceiptModal, tableMounted, lastVisible,
                   firstVisible, currentPage, hasMore>>
    /\ UNCHANGED <<posVars, paymentTab, now, reportingVars>>

\* onChange={(e) => setStartDate(e.target.value)}
setStartDate(value) ==
    /\ value # startDate
    /\ dateChanged(value, endDate, "setStartDate")

\* onChange={(e) => setEndDate(e.target.value)}
setEndDate(value) ==
    /\ value # endDate
    /\ dateChanged(startDate, value, "setEndDate")

\* The pagination is rendered when the table is neither loading nor empty.
PaginationShown == tableMounted /\ ~tableLoading /\ tableTransactions # <<>>

\* A pagination button calls fetchTransactions(direction).
pageRequested(direction, op) ==
    /\ PaginationShown
    /\ tableLoading' = TRUE
    /\ tablePending' = Append(tablePending,
                              Fetch(direction, startDate, endDate,
                                    lastVisible, firstVisible))
    /\ lastOp' = Op(op, "", 0, "")
    /\ UNCHANGED <<tableTransactions, selectedTransaction,
                   tableShowReceiptModal, tableMounted, pageVars>>
    /\ UNCHANGED <<posVars, paymentTab, now, reportingVars>>

\* onClick={() => fetchTransactions('next')} disabled={!hasMore}
nextPage == hasMore /\ pageRequested("next", "nextPage")

\* onClick={() => fetchTransactions('prev')} disabled={currentPage === 1}
previousPage == currentPage # 1 /\ pageRequested("prev", "previousPage")

\* `await getDocs(q)` of the page resolves. An empty page ends the fetch;
\* otherwise the invocation issues the checkMore query and suspends again.
pageResolved(i) ==
    /\ tablePending[i].stage = "page"
    /\ LET docs == getDocs(transactions, tablePending[i].query)
       IN IF docs = <<>>
          THEN /\ tableTransactions' = <<>>
               /\ tableLoading' = FALSE
               /\ hasMore' = FALSE
               /\ tablePending' = RemoveAt(tablePending, i)
          ELSE /\ tablePending' =
                     [tablePending EXCEPT ![i].stage = "checkMore",
                                          ![i].docs = docs]
               /\ UNCHANGED <<tableTransactions, tableLoading, hasMore>>
    /\ UNCHANGED <<selectedTransaction, tableShowReceiptModal>>
    /\ UNCHANGED <<tableMounted, lastVisible, firstVisible, currentPage,
                   startDate, endDate>>
    /\ lastOp' = Op("pageResolved", "", 0, "")
    /\ UNCHANGED <<posVars, paymentTab, now, reportingVars>>

\* `await getDocs(checkMoreRef)` resolves: hasMore, the cursors and the page
\* number are set, the rows of the page are mapped and displayed, and
\* `finally` clears the loading flag.
checkMoreResolved(i) ==
    /\ tablePending[i].stage = "checkMore"
    /\ LET docs == tablePending[i].docs
           direction == tablePending[i].direction
       IN /\ hasMore' = (getDocs(transactions,
                                 CheckMoreQuery(tablePending[i].query.base,
                                                docs)) # <<>>)
          /\ firstVisible' = docs[1]
          /\ lastVisible' = docs[Len(docs)]
          /\ currentPage' =
                 IF direction = "next" THEN currentPage + 1
                 ELSE IF direction = "prev"
                 THEN (IF currentPage - 1 < 1 THEN 1 ELSE currentPage - 1)
                 ELSE 1
          /\ tableTransactions' = MapDocs(docs)
    /\ tableLoading' = FALSE
    /\ tablePending' = RemoveAt(tablePending, i)
    /\ UNCHANGED <<selectedTransaction, tableShowReceiptModal>>
    /\ UNCHANGED <<tableMounted, startDate, endDate>>
    /\ lastOp' = Op("checkMoreResolved", "", 0, "")
    /\ UNCHANGED <<posVars, paymentTab, now, reportingVars>>

\* A rejected read of the table that leaves the loading flag set.
getDocsRejectedKeepsLoading(i) ==
    /\ tablePending' = RemoveAt(tablePending, i)
    /\ UNCHANGED <<tableTransactions, selectedTransaction, tableShowReceiptModal,
                   tableLoading>>
    /\ UNCHANGED <<tableMounted, pageVars>>
    /\ lastOp' = Op("getDocsRejected", "", 0, "")
    /\ UNCHANGED <<posVars, paymentTab, now, reportingVars>>

\* Either `await getDocs` rejects: `catch` logs, `finally` clears the flag.
getDocsRejected(i) ==
    /\ tableLoading' = FALSE
    /\ tablePending' = RemoveAt(tablePending, i)
    /\ UNCHANGED <<tableTransactions, selectedTransaction, tableShowReceiptModal>>
    /\ UNCHANGED <<tableMounted, pageVars>>
    /\ lastOp' = Op("getDocsRejected", "", 0, "")
    /\ UNCHANGED <<posVars, paymentTab, now, reportingVars>>

\* viewReceipt(transaction) of a row on display.
viewReceipt(transaction) ==
    /\ selectedTransaction' = transaction
    /\ tableShowReceiptModal' = TRUE
    /\ UNCHANGED <<tableTransactions, tableLoading, tablePending>>
    /\ UNCHANGED <<tableMounted, pageVars>>
    /\ lastOp' = Op("viewReceipt", transaction.id, 0, "")
    /\ UNCHANGED <<posVars, paymentTab, now, reportingVars>>

\* prepareReceiptData(): the receipt the table hands to ReceiptModal.
prepareReceiptData(selected) ==
    IF selected = NoTransaction THEN NoReceipt
    ELSE [id |-> selected.id,
          items |-> selected.items,
          totalAmount |-> selected.totalAmount,
          cashier |-> selected.cashier,
          timestamp |-> selected.created_at,
          paymentMethod |-> selected.paymentMethod,
          storeName |-> "InJapan Food",
          storeAddress |-> "Tokyo, Japan",
          storePhone |-> "0812-XXXX-XXXX"]

\* String.prototype.slice(start): a negative start counts from the end and
\* is clamped at the beginning of the string.
slice(str, start) ==
    LET from == IF start < 0
                THEN (IF Len(str) + start < 0 THEN 0 ELSE Len(str) + start)
                ELSE (IF start > Len(str) THEN Len(str) ELSE start)
    IN SubSeq(str, from + 1, Len(str))

\* String.prototype.toUpperCase() on the characters of an id.
toUpperCase(str) ==
    [i \in 1..Len(str) |-> IF str[i] = "a" THEN "A" ELSE str[i]]

\* <TableCell>#{transaction.id.slice(-6).toUpperCase()}</TableCell>
rowNumber(transaction) ==
    <<"#">> \o toUpperCase(slice(docIds[transaction.id], -6))

\* A receipt number that keeps the case of the id.
receiptNumberKeepsCase(receipt) ==
    <<"#">> \o slice(docIds[receipt.id], -6)

\* const receiptNumber = `#${receipt.id.slice(-6).toUpperCase()}`
receiptNumber(receipt) ==
    <<"#">> \o toUpperCase(slice(docIds[receipt.id], -6))

\* The table is unmounted: its state is gone, and what its suspended
\* invocations still set reaches no component.
unmountTable ==
    /\ tableMounted
    /\ tableTransactions' = <<>>
    /\ selectedTransaction' = NoTransaction
    /\ tableShowReceiptModal' = FALSE
    /\ tableLoading' = FALSE
    /\ tablePending' = <<>>
    /\ lastVisible' = NoDoc
    /\ firstVisible' = NoDoc
    /\ currentPage' = 1
    /\ hasMore' = FALSE
    /\ startDate' = NoDate
    /\ endDate' = NoDate
    /\ tableMounted' = FALSE
    /\ lastOp' = Op("unmountTable", "", 0, "")
    /\ UNCHANGED <<posVars, paymentTab, now, reportingVars>>

\* ReceiptModal onClose={() => setShowReceiptModal(false)} of the table.
closeTableReceipt ==
    /\ tableShowReceiptModal
    /\ tableShowReceiptModal' = FALSE
    /\ UNCHANGED <<tableTransactions, selectedTransaction, tableLoading,
                   tablePending>>
    /\ UNCHANGED <<tableMounted, pageVars>>
    /\ lastOp' = Op("closeTableReceipt", "", 0, "")
    /\ UNCHANGED <<posVars, paymentTab, now, reportingVars>>

\* ------------------------------------------------- the orders of the store
\* The documents the `orders` collection is filled with: created on one of a
\* few days, with a status, with or without the field total_price.
OrderDates ==
    {Today,
     [Today EXCEPT !.day = Today.day - 1],
     [Today EXCEPT !.month = 0],
     [Today EXCEPT !.year = Today.year - 1]}
OrderStatuses == {"pending", "completed"}
OrderPrices == {1000, 2500}
OrderKinds ==
    [created_at : OrderDates, status : OrderStatuses]
        \cup [created_at : OrderDates, status : OrderStatuses,
              total_price : OrderPrices]
OrderSeqs == UNION {[1..n -> OrderKinds] : n \in 0..MaxOrders}

\* The `monthly_reports` collection: empty, or one report of this year.
StoredReportSeqs ==
    {<<>>,
     <<[month |-> Today.month, year |-> Today.year, totalSales |-> 3,
        totalRevenue |-> 4500]>>}

\* `order.total_price || 0`
Price(order) ==
    IF "total_price" \in DOMAIN order THEN order.total_price ELSE 0

\* new Date(order.created_at).getMonth()
getMonth(order) == order.created_at.month

\* The order of two ISO-8601 strings is the order of their instants.
DateKey(d) == (d.year * 12 + d.month) * 31 + d.day

\* The documents of a collection that satisfy a filter, in the order of
\* created_at (the field of the range filter) and of the document ids.
RECURSIVE OrderByCreatedAtAsc(_, _)
OrderByCreatedAtAsc(coll, ids) ==
    IF ids = {} THEN <<>>
    ELSE LET first == CHOOSE i \in ids : \A j \in ids \ {i} :
                 \/ DateKey(coll[i].created_at) < DateKey(coll[j].created_at)
                 \/ /\ DateKey(coll[i].created_at) = DateKey(coll[j].created_at)
                    /\ i < j
         IN <<[id |-> first, data |-> coll[first]]>>
                \o OrderByCreatedAtAsc(coll, ids \ {first})

\* where('created_at', '>=', new Date(year, 0, 1).toISOString()),
\* where('created_at', '<=', new Date(year, 11, 31, 23, 59, 59).toISOString())
InYear(order, year) == order.created_at.year = year

\* The query of MonthlySalesChart: the orders of a year.
OrdersOfYear(coll, year) ==
    OrderByCreatedAtAsc(coll, {i \in 1..Len(coll) : InYear(coll[i], year)})

\* The query of generateReportsFromOrders: the orders of a year
\* where('status', 'in', ['confirmed', 'completed']).
CountedOrdersOfYear(coll, year) ==
    OrderByCreatedAtAsc(coll,
        {i \in 1..Len(coll) : /\ InYear(coll[i], year)
                              /\ coll[i].status \in {"confirmed", "completed"}})

\* ------------------------------------------------------ MonthlySalesChart
ChartMonths == <<"Jan", "Feb", "Mar", "Apr", "May", "Jun",
                 "Jul", "Aug", "Sep", "Oct", "Nov", "Dec">>

\* months.map((month, index) => ({ name: month, revenue: 0, monthIndex: index }))
initialData ==
    [i \in 1..Len(ChartMonths) |->
        [name |-> ChartMonths[i], revenue |-> 0, monthIndex |-> i - 1]]

\* forEach that writes the order's total over the month's revenue.
RECURSIVE AddRevenueOverwrites(_, _)
AddRevenueOverwrites(data, docs) ==
    IF docs = <<>> THEN data
    ELSE AddRevenueOverwrites(
             [data EXCEPT ![getMonth(Head(docs).data) + 1].revenue =
                              Price(Head(docs).data)],
             Tail(docs))

\* querySnapshot.forEach(doc => initialData[monthIndex].revenue += ...)
RECURSIVE AddRevenue(_, _)
AddRevenue(data, docs) ==
    IF docs = <<>> THEN data
    ELSE AddRevenue(
             [data EXCEPT ![getMonth(Head(docs).data) + 1].revenue =
                              @ + Price(Head(docs).data)],
             Tail(docs))

\* initialData.sort((a, b) => a.monthIndex - b.monthIndex): a stable sort.
RECURSIVE SortByMonthIndex(_)
SortByMonthIndex(data) ==
    IF data = <<>> THEN <<>>
    ELSE LET k == CHOOSE i \in 1..Len(data) :
                 /\ \A j \in 1..Len(data) :
                        data[i].monthIndex <= data[j].monthIndex
                 /\ \A j \in 1..(i - 1) :
                        data[j].monthIndex > data[i].monthIndex
         IN <<data[k]>> \o SortByMonthIndex(RemoveAt(data, k))

\* initialData.map(({ name, revenue }) => ({ name, revenue }))
StripMonthIndex(data) ==
    [i \in 1..Len(data) |-> [name |-> data[i].name, revenue |-> data[i].revenue]]

\* What fetchMonthlyData displays for a snapshot that is not empty.
ChartDataOf(docs) == StripMonthIndex(SortByMonthIndex(AddRevenue(initialData, docs)))

\* The chart is mounted: the effect calls fetchMonthlyData for this year.
mountChart ==
    /\ chartSelectedYear' = Today.year
    /\ chartData' = <<>>
    /\ chartLoading' = TRUE
    /\ chartPending' = <<[year |-> Today.year]>>
    /\ chartMounted' = TRUE
    /\ lastOp' = Op("mountChart", "", 0, "")
    /\ UNCHANGED <<posVars, paymentTab, now, tableVars, loadVars, storeVars, layoutVars,
                   reportVars, dashVars, readFailure>>

\* `await getDocs(q)` of fetchMonthlyData resolves: an empty snapshot shows
\* the twelve months at zero, any other the revenue of its orders by month.
chartResolved(i) ==
    /\ LET docs == OrdersOfYear(orders, chartPending[i].year)
       IN chartData' = IF docs = <<>> THEN initialData ELSE ChartDataOf(docs)
    /\ chartLoading' = FALSE
    /\ chartPending' = RemoveAt(chartPending, i)
    /\ lastOp' = Op("chartResolved", "", 0, "")
    /\ UNCHANGED <<chartSelectedYear, chartMounted>>
    /\ UNCHANGED <<posVars, paymentTab, now, tableVars, loadVars, storeVars, layoutVars,
                   reportVars, dashVars, readFailure>>

\* The display of a view after one of its reads failed.
AfterFailure(view, synthetic) ==
    [readFailure EXCEPT ![view] = IF synthetic THEN "synthetic" ELSE "kept"]

\* A chart that displays twelve made-up months when its read fails.
chartRejectedSynthetic(i) ==
    /\ chartLoading' = FALSE
    /\ chartPending' = RemoveAt(chartPending, i)
    /\ chartData' = [m \in 1..Len(ChartMonths) |->
                        [name |-> ChartMonths[m], revenue |-> 10000]]
    /\ UNCHANGED <<chartSelectedYear, chartMounted>>
    /\ readFailure' = AfterFailure("chart", chartData' # chartData)
    /\ lastOp' = Op("chartRejected", "", 0, "")
    /\ UNCHANGED <<posVars, paymentTab, now, tableVars, loadVars, storeVars, layoutVars,
                   reportVars, dashVars>>

\* `await getDocs(q)` rejects: `catch` logs, `finally` clears the flag; the
\* chart keeps what it displayed.
chartRejected(i) ==
    /\ chartLoading' = FALSE
    /\ chartPending' = RemoveAt(chartPending, i)
    /\ UNCHANGED <<chartSelectedYear, chartData, chartMounted>>
    /\ readFailure' = AfterFailure("chart", chartData' # chartData)
    /\ lastOp' = Op("chartRejected", "", 0, "")
    /\ UNCHANGED <<posVars, paymentTab, now, tableVars, loadVars, storeVars, layoutVars,
                   reportVars, dashVars>>

\* onValueChange={(value) => setSelectedYear(parseInt(value))} of the
\* chart's Select, whose items are the five latest years; the effect of
\* [selectedYear] calls fetchMonthlyData for the new year.
chartSelectYear(year) ==
    /\ chartMounted
    /\ year \in years
    /\ year # chartSelectedYear
    /\ chartSelectedYear' = year
    /\ chartLoading' = TRUE
    /\ chartPending' = Append(chartPending, [year |-> year])
    /\ lastOp' = Op("chartSelectYear", "", 0, "")
    /\ UNCHANGED <<chartData, chartMounted>>
    /\ UNCHANGED <<posVars, paymentTab, now, tableVars, loadVars, storeVars, layoutVars,
                   reportVars, dashVars, readFailure>>

\* The chart is unmounted: its state is gone, and what its suspended
\* invocations still set reaches no component.
unmountChart ==
    /\ chartMounted
    /\ chartMounted' = FALSE
    /\ chartSelectedYear' = Today.year
    /\ chartData' = <<>>
    /\ chartLoading' = FALSE
    /\ chartPending' = <<>>
    /\ lastOp' = Op("unmountChart", "", 0, "")
    /\ UNCHANGED <<posVars, paymentTab, now, tableVars, loadVars, storeVars, layoutVars,
                   reportVars, dashVars, readFailure>>

\* ----------------------------------------------------- SalesRevenueReport
ReportMonths == <<"Januari", "Februari", "Maret", "April", "Mei", "Juni",
                  "Juli", "Agustus", "September", "Oktober", "November",
                  "Desember">>
ReportTabs == {"overview", "transactions"}

\* The outcomes of Math.random() that are explored: the least (FALSE) and
\* the greatest (TRUE); floorRandom is Math.floor(Math.random() * n).
RandomDraws == BOOLEAN
floorRandom(draw, n) == IF draw THEN n - 1 ELSE 0
\* Array.from({ length: 12 }, ...) of generateMockData
MockMonths == 12
\* Array.from({ length: 20 }, ...) of generateMockTransactions
MockTransactionCount == 20

\* where('year', '==', selectedYear), orderBy('month', 'asc')
RECURSIVE OrderByMonthAsc(_, _)
OrderByMonthAsc(coll, ids) ==
    IF ids = {} THEN <<>>
    ELSE LET first == CHOOSE i \in ids : \A j \in ids \ {i} :
                 \/ coll[i].month < coll[j].month
                 \/ coll[i].month = coll[j].month /\ i < j
         IN <<[id |-> first, data |-> coll[first]]>>
                \o OrderByMonthAsc(coll, ids \ {first})

ReportsOfYear(coll, year) ==
    OrderByMonthAsc(coll, {i \in 1..Len(coll) : coll[i].year = year})

\* querySnapshot.docs.map(doc => ({ id: doc.id, ...doc.data() }))
MapReports(docs) ==
    [i \in 1..Len(docs) |->
        [id |-> [kind |-> "doc", n |-> docs[i].id],
         month |-> docs[i].data.month, year |-> docs[i].data.year,
         totalSales |-> docs[i].data.totalSales,
         totalRevenue |-> docs[i].data.totalRevenue]]

\* reports.map(report => ({ name: months[report.month], revenue, sales }))
ReportChart(reports) ==
    [i \in 1..Len(reports) |->
        [name |-> ReportMonths[reports[i].month + 1],
         revenue |-> reports[i].totalRevenue,
         sales |-> reports[i].totalSales]]

\* querySnapshot.forEach: monthlyData[month].sales += 1 and
\* monthlyData[month].revenue += order.total_price || 0, on an entry that
\* starts at { sales: 0, revenue: 0 }.
RECURSIVE GroupByMonth(_, _)
GroupByMonth(monthlyData, docs) ==
    IF docs = <<>> THEN monthlyData
    ELSE LET order == Head(docs).data
             month == getMonth(order)
             opened == IF month \in DOMAIN monthlyData THEN monthlyData
                       ELSE monthlyData @@
                                (month :> [sales |-> 0, revenue |-> 0])
         IN GroupByMonth(
                [opened EXCEPT ![month] =
                    [sales |-> @.sales + 1,
                     revenue |-> @.revenue + Price(order)]],
                Tail(docs))

\* Object.entries(monthlyData): the integer keys in ascending order.
RECURSIVE Entries(_, _)
Entries(monthlyData, keys) ==
    IF keys = {} THEN <<>>
    ELSE LET k == CHOOSE x \in keys : \A y \in keys : x <= y
         IN <<<<k, monthlyData[k]>>>> \o Entries(monthlyData, keys \ {k})

\* The reports generateReportsFromOrders builds of a snapshot.
GeneratedReports(docs, year) ==
    LET monthlyData == GroupByMonth(<<>>, docs)
        entries == Entries(monthlyData, DOMAIN monthlyData)
    IN [i \in 1..Len(entries) |->
           [id |-> [kind |-> "generated", year |-> year, month |-> entries[i][1]],
            month |-> entries[i][1],
            year |-> year,
            totalSales |-> entries[i][2].sales,
            totalRevenue |-> entries[i][2].revenue]]

\* generateMockData(): twelve reports of random sales and revenue.
MockReports(year, salesDraw, revenueDraw) ==
    [i \in 1..MockMonths |->
        [id |-> [kind |-> "mock", n |-> i - 1],
         month |-> i - 1,
         year |-> year,
         totalSales |-> floorRandom(salesDraw, 50) + 10,
         totalRevenue |-> (floorRandom(revenueDraw, 50) + 10) * 1000]]

IsMock(rows) == rows # <<>> /\ \A i \in 1..Len(rows) : rows[i].id.kind = "mock"

\* The report page is mounted: fetchMonthlyReports queries monthly_reports
\* of this year; fetchTransactions returns at once on the overview tab.
mountReport ==
    /\ reportSelectedYear' = Today.year
    /\ reportSelectedMonth' = Today.month
    /\ monthlyReports' = <<>>
    /\ reportChartData' = <<>>
    /\ reportLoading' = TRUE
    /\ reportPending' = <<[stage |-> "reports", year |-> Today.year]>>
    /\ activeTab' = "overview"
    /\ reportTransactions' = <<>>
    /\ reportMounted' = TRUE
    /\ lastOp' = Op("mountReport", "", 0, "")
    /\ UNCHANGED <<posVars, paymentTab, now, tableVars, loadVars, storeVars, layoutVars,
                   chartVars, dashVars, readFailure>>

\* `await getDocs(q)` of fetchMonthlyReports resolves: stored reports are
\* displayed; without any, generateReportsFromOrders issues its query.
reportsResolved(i) ==
    /\ reportPending[i].stage = "reports"
    /\ LET docs == ReportsOfYear(storedReports, reportPending[i].year)
       IN IF docs # <<>>
          THEN /\ monthlyReports' = MapReports(docs)
               /\ reportChartData' = ReportChart(MapReports(docs))
               /\ reportLoading' = FALSE
               /\ reportPending' = RemoveAt(reportPending, i)
          ELSE /\ reportPending' =
                     [reportPending EXCEPT ![i].stage = "orders"]
               /\ UNCHANGED <<monthlyReports, reportChartData, reportLoading>>
    /\ lastOp' = Op("reportsResolved", "", 0, "")
    /\ UNCHANGED <<reportSelectedYear, reportSelectedMonth,
                   activeTab, reportTransactions,
                   reportMounted>>
    /\ UNCHANGED <<posVars, paymentTab, now, tableVars, loadVars, storeVars, layoutVars,
                   chartVars, dashVars, readFailure>>

\* `await getDocs(q)` of generateReportsFromOrders resolves: the reports of
\* the snapshot are displayed and `finally` clears the flag.
reportOrdersResolved(i) ==
    /\ reportPending[i].stage = "orders"
    /\ LET reports == GeneratedReports(
                          CountedOrdersOfYear(orders, reportPending[i].year),
                          reportPending[i].year)
       IN /\ monthlyReports' = reports
          /\ reportChartData' = ReportChart(reports)
    /\ reportLoading' = FALSE
    /\ reportPending' = RemoveAt(reportPending, i)
    /\ lastOp' = Op("reportOrdersResolved", "", 0, "")
    /\ UNCHANGED <<reportSelectedYear, reportSelectedMonth,
                   activeTab, reportTransactions,
                   reportMounted>>
    /\ UNCHANGED <<posVars, paymentTab, now, tableVars, loadVars, storeVars, layoutVars,
                   chartVars, dashVars, readFailure>>

\* Either query rejects: the catch block calls generateMockData() and
\* `finally` clears the flag.
reportRejected(i, salesDraw, revenueDraw) ==
    /\ reportPending[i].stage \in {"reports", "orders"}
    /\ LET reports == MockReports(reportPending[i].year, salesDraw, revenueDraw)
       IN /\ monthlyReports' = reports
          /\ reportChartData' = ReportChart(reports)
    /\ reportLoading' = FALSE
    /\ reportPending' = RemoveAt(reportPending, i)
    /\ readFailure' = AfterFailure("report", IsMock(monthlyReports'))
    /\ lastOp' = Op("reportRejected", "", 0, "")
    /\ UNCHANGED <<reportSelectedYear, reportSelectedMonth,
                   activeTab, reportTransactions,
                   reportMounted>>
    /\ UNCHANGED <<posVars, paymentTab, now, tableVars, loadVars, storeVars, layoutVars,
                   chartVars, dashVars>>

\* The orders of a month, the latest first (orderBy('created_at', 'desc')).
Reverse(seq) == [i \in 1..Len(seq) |-> seq[Len(seq) + 1 - i]]
OrdersOfMonth(coll, year, month) ==
    Reverse(OrderByCreatedAtAsc(coll,
        {i \in 1..Len(coll) : /\ InYear(coll[i], year)
                              /\ getMonth(coll[i]) = month}))

\* querySnapshot.docs.map(doc => ({ id, buyerName, shippingFee, ... }))
MapTransactions(docs) ==
    [i \in 1..Len(docs) |->
        [id |-> [kind |-> "doc", n |-> docs[i].id],
         buyerName |-> "Unknown",
         shippingFee |-> 0,
         totalPayment |-> Price(docs[i].data),
         transactionDate |-> docs[i].data.created_at,
         status |-> docs[i].data.status]]

\* generateMockTransactions(): twenty transactions of random day, fee,
\* subtotal and status.
MockTransactions(year, month, dayDraw, feeDraw, subtotalDraw, statusDraw) ==
    [i \in 1..MockTransactionCount |->
        [id |-> [kind |-> "mock", n |-> i - 1],
         buyerName |-> <<"Customer", i>>,
         shippingFee |-> floorRandom(feeDraw, 1000) + 500,
         totalPayment |-> (floorRandom(subtotalDraw, 5000) + 1000)
                              + (floorRandom(feeDraw, 1000) + 500),
         transactionDate |-> [year |-> year, month |-> month,
                              day |-> floorRandom(dayDraw, 28) + 1],
         status |-> <<"pending", "confirmed", "completed">>[
                        floorRandom(statusDraw, 3) + 1]]]

\* <Tabs value={activeTab} onValueChange={setActiveTab}>: on the
\* transactions tab the effect calls fetchTransactions, which sets the
\* loading flag and queries the orders of the selected month.
selectReportTab(tab) ==
    /\ reportMounted
    /\ activeTab # tab
    /\ activeTab' = tab
    /\ IF tab = "transactions"
       THEN /\ reportLoading' = TRUE
            /\ reportPending' = Append(reportPending,
                                       [stage |-> "transactions",
                                        year |-> reportSelectedYear,
                                        month |-> reportSelectedMonth])
       ELSE UNCHANGED <<reportLoading, reportPending>>
    /\ lastOp' = Op("selectReportTab", tab, 0, "")
    /\ UNCHANGED <<reportSelectedYear, reportSelectedMonth,
                   monthlyReports, reportChartData,
                   reportTransactions, reportMounted>>
    /\ UNCHANGED <<posVars, paymentTab, now, tableVars, loadVars, storeVars, layoutVars,
                   chartVars, dashVars, readFailure>>

\* The effects of the render that follows a change of the selection: a new
\* year calls fetchMonthlyReports, a new year or month calls
\* fetchTransactions, which returns at once unless the transactions tab is
\* shown.
ReadsAfter(year, month) ==
    (IF year # reportSelectedYear
     THEN <<[stage |-> "reports", year |-> year]>> ELSE <<>>)
    \o (IF activeTab = "transactions"
           /\ (year # reportSelectedYear \/ month # reportSelectedMonth)
        THEN <<[stage |-> "transactions", year |-> year, month |-> month]>>
        ELSE <<>>)

\* setSelectedYear / setSelectedMonth and the effects of the next render.
showMonth(year, month, op) ==
    /\ reportMounted
    /\ reportSelectedYear' = year
    /\ reportSelectedMonth' = month
    /\ reportPending' = reportPending \o ReadsAfter(year, month)
    /\ reportLoading' = (reportLoading \/ ReadsAfter(year, month) # <<>>)
    /\ lastOp' = Op(op, "", 0, "")
    /\ UNCHANGED <<monthlyReports, reportChartData, activeTab,
                   reportTransactions, reportMounted>>
    /\ UNCHANGED <<posVars, paymentTab, now, tableVars, loadVars, storeVars, layoutVars,
                   chartVars, dashVars, readFailure>>

\* if (selectedMonth === 0) { setSelectedMonth(11); setSelectedYear(prev - 1) }
\* else setSelectedMonth(prev => prev - 1)
handlePreviousMonth ==
    IF reportSelectedMonth = 0
    THEN showMonth(reportSelectedYear - 1, 11, "handlePreviousMonth")
    ELSE showMonth(reportSelectedYear, reportSelectedMonth - 1,
                   "handlePreviousMonth")

\* A next-month step that wraps the month and leaves the year.
handleNextMonthNoWrap ==
    showMonth(reportSelectedYear, (reportSelectedMonth + 1) % 12,
              "handleNextMonth")

\* if (selectedMonth === 11) { setSelectedMonth(0); setSelectedYear(prev + 1) }
\* else setSelectedMonth(prev => prev + 1)
handleNextMonth ==
    IF reportSelectedMonth = 11
    THEN showMonth(reportSelectedYear + 1, 0, "handleNextMonth")
    ELSE showMonth(reportSelectedYear, reportSelectedMonth + 1,
                   "handleNextMonth")

\* onValueChange={(value) => setSelectedMonth(parseInt(value))} of the
\* month Select, whose items are the indices of `months`.
selectMonth(index) ==
    /\ index \in 0..(Len(ReportMonths) - 1)
    /\ index # reportSelectedMonth
    /\ showMonth(reportSelectedYear, index, "selectMonth")

\* onValueChange={(value) => setSelectedYear(parseInt(value))} of the year
\* Select, whose items are `years`.
selectYear(year) ==
    /\ year \in years
    /\ year # reportSelectedYear
    /\ showMonth(year, reportSelectedMonth, "selectYear")

\* `await getDocs(q)` of fetchTransactions resolves: the orders of the month
\* are listed, or mock transactions when there is none.
reportTransactionsResolved(i, dayDraw, feeDraw, subtotalDraw, statusDraw) ==
    /\ reportPending[i].stage = "transactions"
    /\ LET docs == OrdersOfMonth(orders, reportPending[i].year,
                              reportPending[i].month)
       IN reportTransactions' =
              IF docs # <<>> THEN MapTransactions(docs)
              ELSE MockTransactions(reportPending[i].year, reportPending[i].month,
                                    dayDraw, feeDraw, subtotalDraw, statusDraw)
    /\ reportLoading' = FALSE
    /\ reportPending' = RemoveAt(reportPending, i)
    /\ lastOp' = Op("reportTransactionsResolved", "", 0, "")
    /\ UNCHANGED <<reportSelectedYear, reportSelectedMonth,
                   monthlyReports, reportChartData,
                   activeTab, reportMounted>>
    /\ UNCHANGED <<posVars, paymentTab, now, tableVars, loadVars, storeVars, layoutVars,
                   chartVars, dashVars, readFailure>>

\* The query of fetchTransactions rejects: mock transactions are listed.
reportTransactionsRejected(i, dayDraw, feeDraw, subtotalDraw, statusDraw) ==
    /\ reportPending[i].stage = "transactions"
    /\ reportTransactions' =
           MockTransactions(reportPending[i].year, reportPending[i].month,
                            dayDraw, feeDraw, subtotalDraw, statusDraw)
    /\ reportLoading' = FALSE
    /\ reportPending' = RemoveAt(reportPending, i)
    /\ readFailure' = AfterFailure("report", IsMock(reportTransactions'))
    /\ lastOp' = Op("reportTransactionsRejected", "", 0, "")
    /\ UNCHANGED <<reportSelectedYear, reportSelectedMonth,
                   monthlyReports, reportChartData,
                   activeTab, reportMounted>>
    /\ UNCHANGED <<posVars, paymentTab, now, tableVars, loadVars, storeVars, layoutVars,
                   chartVars, dashVars>>

\* The report page is unmounted.
unmountReport ==
    /\ reportMounted
    /\ reportMounted' = FALSE
    /\ reportSelectedYear' = Today.year
    /\ reportSelectedMonth' = Today.month
    /\ monthlyReports' = <<>>
    /\ reportChartData' = <<>>
    /\ reportLoading' = FALSE
    /\ reportPending' = <<>>
    /\ activeTab' = "overview"
    /\ reportTransactions' = <<>>
    /\ lastOp' = Op("unmountReport", "", 0, "")
    /\ UNCHANGED <<posVars, paymentTab, now, tableVars, loadVars, storeVars, layoutVars,
                   chartVars, dashVars, readFailure>>

\* --------------------------------------------------------- KasirDashboard
\* limit(5) of the recent orders; Array.from({ length: 7 }) of the chart.
RecentCount == 5
DaysShown == 7

\* The snapshot of the orders whose created_at is one of the dates that
\* satisfy the query's where clauses.
OrdersWhere(coll, dates) ==
    OrderByCreatedAtAsc(coll, {i \in 1..Len(coll) : coll[i].created_at \in dates})

\* created_at >= todayStart, created_at < todayEnd
IsToday(d) == d = Today
\* created_at >= monthStart, created_at <= monthEnd
IsThisMonth(d) == d.year = Today.year /\ d.month = Today.month
\* orderBy('created_at', 'desc'), limit(5)
RecentOrders(coll) ==
    Limit(Reverse(OrderByCreatedAtAsc(coll, 1..Len(coll))), RecentCount)

\* last7Days[k]: six days ago first, today last.
DayShown(k) == [Today EXCEPT !.day = Today.day - (DaysShown - k)]

\* docs.reduce((sum, doc) => sum + (doc.data().total_price || 0), 0)
RECURSIVE Revenue(_)
Revenue(docs) ==
    IF docs = <<>> THEN 0 ELSE Price(Head(docs).data) + Revenue(Tail(docs))

\* Math.round(a / b) of two naturals, b > 0.
RoundedQuotient(a, b) == (2 * a + b) \div (2 * b)

\* The stats of the snapshots of today, of this month and of the products.
\* No order of the store names a customer.
StatsOf(todayDocs, monthDocs, productCount) ==
    [totalSales |-> Len(todayDocs),
     totalRevenue |-> Revenue(todayDocs),
     totalCustomers |-> 0,
     totalProducts |-> productCount,
     averageOrderValue |-> IF Len(monthDocs) > 0
                           THEN RoundedQuotient(Revenue(monthDocs), Len(monthDocs))
                           ELSE 0]

\* recentOrdersSnapshot.docs.map(doc => ({ id, customerName, ... }))
MapRecent(docs) ==
    [i \in 1..Len(docs) |->
        [id |-> docs[i].id,
         customerName |-> "Unknown",
         totalAmount |-> Price(docs[i].data),
         date |-> docs[i].data.created_at,
         status |-> docs[i].data.status]]

\* The dashboard is mounted: the effect calls fetchDashboardData, which
\* sets the loading flag and queries the orders of today.
mountDashboard ==
    /\ stats' = NoStats
    /\ recentTransactions' = <<>>
    /\ dailySalesData' = <<>>
    /\ dashLoading' = TRUE
    /\ dashPending' = [stage |-> "today"]
    /\ dashMounted' = TRUE
    /\ lastOp' = Op("mountDashboard", "", 0, "")
    /\ UNCHANGED <<posVars, paymentTab, now, tableVars, loadVars, storeVars, layoutVars,
                   chartVars, reportVars, readFailure>>

\* One of the four reads that fetchDashboardData awaits one after the other
\* resolves: the next is issued; after the last the stats and the recent
\* transactions are displayed and the reads of the seven days are issued
\* together (Promise.all).
dashReadResolved ==
    /\ dashPending.stage \in {"today", "month", "products", "recent"}
    /\ CASE dashPending.stage = "today" ->
              /\ dashPending' = [stage |-> "month",
                                 todayDocs |-> OrdersWhere(orders, {d \in OrderDates : IsToday(d)})]
              /\ UNCHANGED <<stats, recentTransactions>>
         [] dashPending.stage = "month" ->
              /\ dashPending' = [stage |-> "products",
                                 todayDocs |-> dashPending.todayDocs,
                                 monthDocs |-> OrdersWhere(orders, {d \in OrderDates : IsThisMonth(d)})]
              /\ UNCHANGED <<stats, recentTransactions>>
         [] dashPending.stage = "products" ->
              /\ dashPending' = [stage |-> "recent",
                                 todayDocs |-> dashPending.todayDocs,
                                 monthDocs |-> dashPending.monthDocs,
                                 productCount |-> Cardinality(Products)]
              /\ UNCHANGED <<stats, recentTransactions>>
         [] dashPending.stage = "recent" ->
              /\ stats' = StatsOf(dashPending.todayDocs, dashPending.monthDocs,
                                  dashPending.productCount)
              /\ recentTransactions' = MapRecent(RecentOrders(orders))
              /\ dashPending' = [stage |-> "days", days |-> <<>>]
    /\ lastOp' = Op("dashReadResolved", dashPending.stage, 0, "")
    /\ UNCHANGED <<dailySalesData, dashLoading, dashMounted>>
    /\ UNCHANGED <<posVars, paymentTab, now, tableVars, loadVars, storeVars, layoutVars,
                   chartVars, reportVars, readFailure>>

\* The entries of the daily chart once every day has its revenue.
DailySales(days) ==
    [k \in 1..DaysShown |-> [name |-> DayShown(k), revenue |-> days[k]]]

\* The read of day k resolves (`days` maps the days that have resolved to
\* their revenue); with the last of the seven the daily chart is displayed
\* and `finally` clears the flag.
dashDayResolved(k) ==
    /\ dashPending.stage = "days"
    /\ k \notin DOMAIN dashPending.days
    /\ LET revenue == Revenue(OrdersWhere(orders, {DayShown(k)}))
           days == (k :> revenue) @@ dashPending.days
       IN IF DOMAIN days = 1..DaysShown
          THEN /\ dailySalesData' = DailySales(days)
               /\ dashLoading' = FALSE
               /\ dashPending' = NoFetch
          ELSE /\ dashPending' = [dashPending EXCEPT !.days = days]
               /\ UNCHANGED <<dailySalesData, dashLoading>>
    /\ lastOp' = Op("dashDayResolved", "", k, "")
    /\ UNCHANGED <<stats, recentTransactions, dashMounted>>
    /\ UNCHANGED <<posVars, paymentTab, now, tableVars, loadVars, storeVars, layoutVars,
                   chartVars, reportVars, readFailure>>

\* A read of fetchDashboardData rejects (with the first of the seven days
\* to reject, Promise.all rejects): `catch` logs, `finally` clears the flag
\* and the dashboard keeps what it displayed. What the other days' reads
\* still return reaches no state.
dashReadRejected ==
    /\ dashPending.stage # "none"
    /\ dashLoading' = FALSE
    /\ dashPending' = NoFetch
    /\ UNCHANGED <<stats, recentTransactions, dailySalesData, dashMounted>>
    /\ readFailure' = AfterFailure("dashboard",
                                   <<stats', recentTransactions', dailySalesData'>>
                                       # <<stats, recentTransactions, dailySalesData>>)
    /\ lastOp' = Op("dashReadRejected", dashPending.stage, 0, "")
    /\ UNCHANGED <<posVars, paymentTab, now, tableVars, loadVars, storeVars, layoutVars,
                   chartVars, reportVars>>

\* The dashboard is unmounted.
unmountDashboard ==
    /\ dashMounted
    /\ stats' = NoStats
    /\ recentTransactions' = <<>>
    /\ dailySalesData' = <<>>
    /\ dashLoading' = FALSE
    /\ dashPending' = NoFetch
    /\ dashMounted' = FALSE
    /\ lastOp' = Op("unmountDashboard", "", 0, "")
    /\ UNCHANGED <<posVars, paymentTab, now, tableVars, loadVars, storeVars, layoutVars,
                   chartVars, reportVars, readFailure>>

\* ------------------------------------------------------ POS: the products
\* The POS is mounted anew with no append pending: its state is that of a
\* new component and the effect calls fetchProducts.
mountPOS ==
    /\ inflight = <<>>
    /\ cart' = <<>>
    /\ showReceiptModal' = FALSE
    /\ currentReceipt' = NoReceipt
    /\ paymentTab' = "cash"
    /\ posLoading' = TRUE
    /\ productsPending' = TRUE
    /\ lastOp' = Op("mountPOS", "", 0, "")
    /\ UNCHANGED <<inflight, transactions, now, tableVars, storeVars, layoutVars, chartVars,
                   reportVars, dashVars, readFailure>>

\* `await getDocs(productsRef)` resolves, with no product or with the
\* products: either way the flag is cleared.
productsResolved(empty) ==
    /\ productsPending
    /\ posLoading' = FALSE
    /\ productsPending' = FALSE
    /\ lastOp' = Op("productsResolved", IF empty THEN "empty" ELSE "", 0, "")
    /\ UNCHANGED <<posVars, paymentTab, now, tableVars, storeVars, layoutVars, chartVars,
                   reportVars, dashVars, readFailure>>

\* `await getDocs(productsRef)` rejects: the catch block clears the flag.
productsRejected ==
    /\ productsPending
    /\ posLoading' = FALSE
    /\ productsPending' = FALSE
    /\ lastOp' = Op("productsRejected", "", 0, "")
    /\ UNCHANGED <<posVars, paymentTab, now, tableVars, storeVars, layoutVars, chartVars,
                   reportVars, dashVars, readFailure>>

\* ------------------------------------------------------------------- Next
\* The bounds of the exploration: a line's quantity stays within MaxQty and
\* the appends stored or pending stay within MaxTx.
QtyRoom(id, change) ==
    \A i \in 1..Len(cart) : cart[i].id = id => cart[i].quantity + change <= MaxQty
TxRoom == Len(cart) # 0 => Len(transactions) + Len(inflight) < MaxTx

Next ==
    \/ \E p \in Products : QtyRoom(p, 1) /\ addToCart(p)
    \/ \E p \in Products, d \in Changes : QtyRoom(p, d) /\ updateQuantity(p, d)
    \/ \E p \in Products : removeFromCart(p)
    \/ clearCart
    \/ TxRoom /\ handleCheckout
    \/ \E i \in 1..Len(inflight) : addDocResolved(i)
    \/ \E i \in 1..Len(inflight), written \in BOOLEAN : addDocRejected(i, written)
    \/ closeReceipt

Spec == Init /\ [][Next]_vars

\* ------------------------------------------------------ payment tab and POS
\* The units of a cart: the sum of its quantities.
RECURSIVE CartUnits(_)
CartUnits(c) == IF c = <<>> THEN 0 ELSE Head(c).quantity + CartUnits(Tail(c))

\* The bound of the explorations that only add to the cart.
UnitRoom == CartUnits(cart) < MaxUnits

\* The POS screen with its payment tabs: the cashier fills the cart,
\* selects a tab and checks out with the button of the tab on display.
NextTender ==
    \/ \E p \in Products : UnitRoom /\ addToCart(p)
    \/ \E tab \in PaymentTabs : selectTab(tab)
    \/ TxRoom /\ handleCheckout
    \/ \E i \in 1..Len(inflight) : addDocResolved(i)
    \/ \E i \in 1..Len(inflight), written \in BOOLEAN : addDocRejected(i, written)
    \/ closeReceipt

SpecTender == Init /\ [][NextTender]_vars

\* ------------------------------------------------------- repeated checkouts
\* The POS screen with every cart handler, where a checkout is invoked again
\* while an append is pending or after one was rejected.
RetryUnitRoom(c) == CartUnits(c) <= MaxRetryUnits
AppendRoom == Len(cart) # 0 => Len(transactions) + Len(inflight) < MaxAppends

NextRetry ==
    \/ \E p \in Products : RetryUnitRoom(AddUpdater(cart, p)) /\ addToCart(p)
    \/ \E p \in Products, d \in Changes :
          RetryUnitRoom(QuantityUpdater(cart, p, d)) /\ updateQuantity(p, d)
    \/ \E p \in Products : removeFromCart(p)
    \/ clearCart
    \/ AppendRoom /\ handleCheckout
    \/ \E i \in 1..Len(inflight) : addDocResolved(i)
    \/ \E i \in 1..Len(inflight), written \in BOOLEAN : addDocRejected(i, written)
    \/ closeReceipt

SpecRetry == Init /\ [][NextRetry]_vars

\* ------------------------------------------------- POS and the table's rows
\* The POS screen and the transactions table side by side (two browser
\* sessions of one cashier): checkouts are stored, the table loads its first
\* page and shows the receipt of a row.
NextReceipt ==
    \/ \E p \in Products : UnitRoom /\ addToCart(p)
    \/ TxRoom /\ handleCheckout
    \/ \E i \in 1..Len(inflight) : addDocResolved(i)
    \/ \E i \in 1..Len(inflight), written \in BOOLEAN : addDocRejected(i, written)
    \/ closeReceipt
    \/ mountTable
    \/ \E i \in 1..Len(tablePending) : pageResolved(i)
    \/ \E i \in 1..Len(tablePending) : checkMoreResolved(i)
    \/ \E i \in 1..Len(tablePending) : getDocsRejected(i)
    \/ \E i \in 1..Len(tableTransactions) : viewReceipt(tableTransactions[i])
    \/ closeTableReceipt

SpecReceipt == Init /\ [][NextReceipt]_vars

\* The same two screens while time passes.
ClockRoom == now < MaxClock

NextClock ==
    \/ NextReceipt
    \/ ClockRoom /\ Tick

SpecClock == Init /\ [][NextClock]_vars

\* ------------------------------------------------- the monthly aggregations
\* The store holds any orders and monthly reports when the chart and the
\* report page are opened.
InitAgg ==
    /\ InitViews
    /\ orders \in OrderSeqs
    /\ storedReports \in StoredReportSeqs
    /\ docIds = AutoIds

NextAgg ==
    \/ mountChart
    \/ \E i \in 1..Len(chartPending) : chartResolved(i)
    \/ mountReport
    \/ \E i \in 1..Len(reportPending) : reportsResolved(i)
    \/ \E i \in 1..Len(reportPending) : reportOrdersResolved(i)

SpecAgg == InitAgg /\ [][NextAgg]_vars

\* --------------------------------------------------- the views and reads
\* A store that was filled before the views are opened: two orders, one
\* monthly report, one transaction.
SampleOrders ==
    <<[created_at |-> Today, status |-> "completed", total_price |-> 1000],
      [created_at |-> [Today EXCEPT !.day = Today.day - 1], status |-> "pending"]>>
SampleTransactions ==
    <<StoredDoc(1, BuildTransaction(AddUpdater(<<>>, "A"), user, 0))>>

InitLoads ==
    /\ LayoutReady
    /\ cart = <<>>
    /\ showReceiptModal = FALSE
    /\ currentReceipt = NoReceipt
    /\ inflight = <<>>
    /\ transactions \in {<<>>, SampleTransactions}
    /\ lastOp = Op("mount", "", 0, "")
    /\ paymentTab = "cash"
    /\ now = 0
    /\ tableTransactions = <<>>
    /\ selectedTransaction = NoTransaction
    /\ tableShowReceiptModal = FALSE
    /\ tableLoading = FALSE
    /\ tablePending = <<>>
    /\ lastVisible = NoDoc
    /\ firstVisible = NoDoc
    /\ currentPage = 1
    /\ hasMore = FALSE
    /\ startDate = NoDate
    /\ endDate = NoDate
    /\ tableMounted = FALSE
    /\ chartMounted = FALSE
    /\ reportMounted = FALSE
    /\ dashMounted = FALSE
    /\ posLoading = FALSE
    /\ productsPending = FALSE
    /\ chartSelectedYear = Today.year
    /\ chartData = <<>>
    /\ chartLoading = FALSE
    /\ chartPending = <<>>
    /\ reportSelectedYear = Today.year
    /\ reportSelectedMonth = Today.month
    /\ monthlyReports = <<>>
    /\ reportChartData = <<>>
    /\ reportLoading = FALSE
    /\ reportPending = <<>>
    /\ activeTab = "overview"
    /\ reportTransactions = <<>>
    /\ stats = NoStats
    /\ recentTransactions = <<>>
    /\ dailySalesData = <<>>
    /\ dashLoading = FALSE
    /\ dashPending = NoFetch
    /\ readFailure = [v \in ReportingViews |-> "none"]
    /\ orders \in {<<>>, SampleOrders}
    /\ storedReports \in StoredReportSeqs
    /\ docIds = AutoIds

\* One session that goes from view to view: a view is mounted when no
\* other is, loads, is used and is unmounted; the reads resolve or reject.
NoneMounted ==
    ~tableMounted /\ ~chartMounted /\ ~reportMounted /\ ~dashMounted

ReadRoom == Len(reportPending) < MaxReads

NextLoads ==
    \/ mountPOS
    \/ \E empty \in BOOLEAN : productsResolved(empty)
    \/ productsRejected
    \/ NoneMounted /\ mountTable
    \/ \E i \in 1..Len(tablePending) : pageResolved(i)
    \/ \E i \in 1..Len(tablePending) : checkMoreResolved(i)
    \/ \E i \in 1..Len(tablePending) : getDocsRejected(i)
    \/ unmountTable
    \/ NoneMounted /\ mountChart
    \/ \E i \in 1..Len(chartPending) : chartResolved(i)
    \/ \E i \in 1..Len(chartPending) : chartRejected(i)
    \/ unmountChart
    \/ NoneMounted /\ mountReport
    \/ \E i \in 1..Len(reportPending) : reportsResolved(i)
    \/ \E i \in 1..Len(reportPending) : reportOrdersResolved(i)
    \/ \E i \in 1..Len(reportPending), s, r \in RandomDraws :
          reportRejected(i, s, r)
    \/ \E tab \in ReportTabs : ReadRoom /\ selectReportTab(tab)
    \/ \E i \in 1..Len(reportPending), d \in RandomDraws :
          reportTransactionsResolved(i, d, d, d, d)
    \/ \E i \in 1..Len(reportPending), d \in RandomDraws :
          reportTransactionsRejected(i, d, d, d, d)
    \/ unmountReport
    \/ NoneMounted /\ mountDashboard
    \/ dashReadResolved
    \/ \E k \in 1..DaysShown : dashDayResolved(k)
    \/ dashReadRejected
    \/ unmountDashboard

SpecLoads == InitLoads /\ [][NextLoads]_vars

\* ------------------------------------------------ the report's selection
\* The report page with its month and year selectors, on a store that holds
\* the sample orders and no monthly report.
InitMonth ==
    /\ InitViews
    /\ orders = SampleOrders
    /\ storedReports = <<>>
    /\ docIds = AutoIds

YearRoom(year) ==
    /\ year >= Today.year - MaxYearShift
    /\ year <= Today.year + MaxYearShift
\* Room for the reads a change of the selection issues.
NavRoom ==
    Len(reportPending) + (IF activeTab = "transactions" THEN 2 ELSE 1)
        <= MaxNavReads

NextMonth ==
    \/ NoneMounted /\ mountReport
    \/ /\ NavRoom
       /\ reportSelectedMonth = 0 => YearRoom(reportSelectedYear - 1)
       /\ handlePreviousMonth
    \/ /\ NavRoom
       /\ reportSelectedMonth = 11 => YearRoom(reportSelectedYear + 1)
       /\ handleNextMonth
    \/ \E index \in 0..11 : NavRoom /\ selectMonth(index)
    \/ \E year \in years : NavRoom /\ YearRoom(year) /\ selectYear(year)
    \/ \E i \in 1..Len(reportPending) : reportsResolved(i)
    \/ \E i \in 1..Len(reportPending) : reportOrdersResolved(i)
    \/ \E i \in 1..Len(reportPending), s, r \in RandomDraws :
          reportRejected(i, s, r)
    \/ unmountReport

SpecMonth == InitMonth /\ [][NextMonth]_vars

\* ------------------------------------------------- the ids and the numbers
\* The id texts of at most MaxIdLen characters.
IdTexts == UNION {[1..n -> IdChars] : n \in 1..MaxIdLen}

\* The table on a store that holds one transaction, whatever its id.
InitNumber ==
    /\ InitScreens
    /\ LayoutReady
    /\ transactions = SampleTransactions
    /\ orders = <<>>
    /\ storedReports = <<>>
    /\ \E text \in IdTexts : docIds = <<text>>

NextNumber ==
    \/ ~tableMounted /\ mountTable
    \/ \E i \in 1..Len(tablePending) : pageResolved(i)
    \/ \E i \in 1..Len(tablePending) : checkMoreResolved(i)
    \/ \E i \in 1..Len(tableTransactions) : viewReceipt(tableTransactions[i])
    \/ closeTableReceipt
    \/ unmountTable

SpecNumber == InitNumber /\ [][NextNumber]_vars

\* ------------------------------------------------- a store that never fails
\* The POS screen on a store whose appends always resolve: the cashier adds
\* to the cart and presses the pay button, also while an append is pending.
NextPending ==
    \/ \E p \in Products : UnitRoom /\ addToCart(p)
    \/ \E p \in Products, d \in Changes :
          CartUnits(QuantityUpdater(cart, p, d)) <= MaxUnits /\ updateQuantity(p, d)
    \/ AppendRoom /\ handleCheckout
    \/ \E i \in 1..Len(inflight) : addDocResolved(i)
    \/ closeReceipt

SpecPending == Init /\ [][NextPending]_vars

\* ------------------------------------------- the table's filter and pages
\* The `transactions` collection of MaxStored documents, created in equal
\* numbers on each of the days, the first of a day at its first instant and
\* the others at its last.
StoredTransactions ==
    [n \in 1..MaxStored |->
        LET day == ((n - 1) * MaxDay) \div MaxStored + 1
        IN StoredDoc(n, BuildTransaction(
                            AddUpdater(<<>>, "A"), user,
                            IF ((n - 2) * MaxDay) \div MaxStored + 1 < day
                            THEN DayStart(day) ELSE DayEnd(day)))]

\* The values of a date input: empty, or one of the days.
DateInputs == {NoDate} \cup 1..MaxDay

InitTable ==
    /\ InitScreens
    /\ LayoutReady
    /\ transactions = StoredTransactions
    /\ orders = <<>>
    /\ storedReports = <<>>
    /\ docIds = AutoIds

FilterReadRoom == Len(tablePending) < MaxReads
TableReadRoom == Len(tablePending) < MaxTableReads
PageRoom == currentPage < MaxPage

\* The table and its date filter: the table is mounted, the cashier sets
\* and clears the two dates, also while a fetch is outstanding, and the
\* reads resolve.
NextFilter ==
    \/ ~tableMounted /\ mountTable
    \/ \E value \in DateInputs :
          FilterReadRoom /\ PageRoom /\ setStartDate(value)
    \/ \E value \in DateInputs :
          FilterReadRoom /\ PageRoom /\ setEndDate(value)
    \/ \E i \in 1..Len(tablePending) : pageResolved(i)
    \/ \E i \in 1..Len(tablePending) : checkMoreResolved(i)

SpecFilter == InitTable /\ [][NextFilter]_vars

\* The table with its date filter and its two pagination buttons.
NextPages ==
    \/ ~tableMounted /\ mountTable
    \/ \E value \in DateInputs :
          TableReadRoom /\ PageRoom /\ setStartDate(value)
    \/ \E value \in DateInputs :
          TableReadRoom /\ PageRoom /\ setEndDate(value)
    \/ TableReadRoom /\ PageRoom /\ nextPage
    \/ TableReadRoom /\ previousPage
    \/ \E i \in 1..Len(tablePending) : pageResolved(i)
    \/ \E i \in 1..Len(tablePending) : checkMoreResolved(i)

SpecPages == InitTable /\ [][NextPages]_vars

\* ------------------------------------------------- the years on display
\* An order of this year and an order of last year.
OrdersOfTwoYears ==
    <<[created_at |-> Today, status |-> "completed", total_price |-> 1000],
      [created_at |-> [Today EXCEPT !.year = Today.year - 1],
       status |-> "completed", total_price |-> 2500]>>

InitYears ==
    /\ InitViews
    /\ orders = OrdersOfTwoYears
    /\ storedReports = <<>>
    /\ docIds = AutoIds

\* The chart and the report page, each with its year Select: a year is
\* selected also while the read of an earlier selection is outstanding, and
\* the reads resolve or reject in any order.
NextYears ==
    \/ ~chartMounted /\ mountChart
    \/ \E year \in years :
          /\ Len(chartPending) < MaxReads
          /\ YearRoom(year)
          /\ chartSelectYear(year)
    \/ \E i \in 1..Len(chartPending) : chartResolved(i)
    \/ \E i \in 1..Len(chartPending) : chartRejected(i)
    \/ ~reportMounted /\ mountReport
    \/ \E year \in years : ReadRoom /\ YearRoom(year) /\ selectYear(year)
    \/ \E i \in 1..Len(reportPending) : reportsResolved(i)
    \/ \E i \in 1..Len(reportPending) : reportOrdersResolved(i)
    \/ \E i \in 1..Len(reportPending), s, r \in RandomDraws :
          reportRejected(i, s, r)

SpecYears == InitYears /\ [][NextYears]_vars

\* ------------------------------------------------ the layout and its guard
\* The layout is mounted while the auth context is still loading: its first
\* render shows the spinner and its effect is due. The dashboard, the child
\* of the index route, exists while the layout shows its children.
InitLayout ==
    /\ InitScreens
    /\ transactions = SampleTransactions
    /\ orders = SampleOrders
    /\ storedReports = <<>>
    /\ docIds = AutoIds
    /\ authUser = NoUser
    /\ authLoading = TRUE
    /\ isAdmin = FALSE
    /\ layoutLoading = TRUE
    /\ layoutShown = "spinner"
    /\ layoutEffect = TRUE

ChildrenShown == layoutShown = "children"

NextLayout ==
    \/ \E account \in Users \cup {NoUser}, waits \in BOOLEAN :
          authChanged(account, waits)
    \/ layoutEffectRun
    \/ ChildrenShown /\ ~dashMounted /\ mountDashboard
    \/ ChildrenShown /\ dashMounted /\ dashReadResolved
    \/ \E k \in 1..DaysShown : ChildrenShown /\ dashMounted /\ dashDayResolved(k)
    \/ ChildrenShown /\ dashMounted /\ dashReadRejected
    \/ ~ChildrenShown /\ unmountDashboard

SpecLayout == InitLayout /\ [][NextLayout]_vars

\* ======================================================== cart properties
\* The sum of f over a finite set of indices, taken in no particular order.
RECURSIVE SumOver(_, _)
SumOver(S, c) ==
    IF S = {} THEN 0
    ELSE LET i == CHOOSE x \in S : TRUE
         IN (c[i].price * c[i].quantity) + SumOver(S \ {i}, c)

\* Index of the line with a product id (0 when there is none).
IndexOf(c, id) ==
    IF \E i \in 1..Len(c) : c[i].id = id
    THEN CHOOSE i \in 1..Len(c) : c[i].id = id
    ELSE 0

CartOps == {"addToCart", "updateQuantity", "removeFromCart", "clearCart"}

\* C1: after any sequence of addToCart, updateQuantity, removeFromCart and
\* clear, the cart total is the sum of price x quantity over the lines in the
\* cart, and 0 for the empty cart.
C1_TotalIsSumOfLines ==
    /\ cartTotal(cart) = SumOver(1..Len(cart), cart)
    /\ cart = <<>> => cartTotal(cart) = 0

\* C1 witness: a two-line cart with a line of quantity 2, left by a cart
\* operation, whose total is 2 x 500 + 1 x 300.
C1_Witness ==
    /\ lastOp.op \in CartOps
    /\ Len(cart) = 2
    /\ \E i \in 1..2 : cart[i].id = "A" /\ cart[i].quantity = 2
    /\ cartTotal(cart) = 1300

\* C7: every cart line and every item of every stored transaction has
\* quantity >= 1; updateQuantity(id, change) on a present line sets its
\* quantity to max(1, quantity + change) and never removes the line.
C7_QuantityInv ==
    /\ \A i \in 1..Len(cart) : cart[i].quantity >= 1
    /\ \A t \in 1..Len(transactions) :
          \A i \in 1..Len(transactions[t].items) :
              transactions[t].items[i].quantity >= 1

C7_UpdateStep ==
    lastOp'.op = "updateQuantity" =>
        /\ Len(cart') = Len(cart)
        /\ \A i \in 1..Len(cart) :
              cart[i].id = lastOp'.id =>
                  /\ cart'[i].id = cart[i].id
                  /\ cart'[i].quantity =
                        IF cart[i].quantity + lastOp'.change < 1 THEN 1
                        ELSE cart[i].quantity + lastOp'.change

C7_QuantityAtLeastOne == []C7_QuantityInv /\ [][C7_UpdateStep]_vars

\* C7 witness: updateQuantity(id, -5) has run and the line is still in the
\* cart, with quantity 1.
C7_Witness ==
    /\ lastOp.op = "updateQuantity"
    /\ lastOp.change = -5
    /\ \E i \in 1..Len(cart) : cart[i].id = lastOp.id /\ cart[i].quantity = 1

\* C8: addToCart(product) on a cart that has a line with that id adds 1 to
\* that line's quantity and changes nothing else (the other lines, the order,
\* the line's id, name and price); on a cart without it, it appends one line of
\* quantity 1, with the product's name and price, at the end.
C8_AddStep ==
    lastOp'.op = "addToCart" =>
        LET p == lastOp'.id
            k == IndexOf(cart, p)
        IN IF k # 0
           THEN /\ Len(cart') = Len(cart)
                /\ cart'[k].quantity = cart[k].quantity + 1
                /\ cart'[k].id = cart[k].id
                /\ cart'[k].name = cart[k].name
                /\ cart'[k].price = cart[k].price
                /\ \A i \in 1..Len(cart) : i # k => cart'[i] = cart[i]
           ELSE /\ Len(cart') = Len(cart) + 1
                /\ \A i \in 1..Len(cart) : cart'[i] = cart[i]
                /\ cart'[Len(cart')] = [id |-> p, name |-> ProductName[p],
                                        price |-> ProductPrice[p], quantity |-> 1]

C8_AddToCart == [][C8_AddStep]_vars

\* C8 witness: addToCart has just raised the first of two lines to quantity 2.
C8_Witness ==
    /\ lastOp.op = "addToCart"
    /\ Len(cart) = 2
    /\ cart[1].id = lastOp.id
    /\ cart[1].quantity = 2
    /\ cart[2].quantity = 1

\* C9: no two cart lines have the same product id.
C9_UniqueIds ==
    \A i, j \in 1..Len(cart) : cart[i].id = cart[j].id => i = j

\* C9 witness: a full cart (one line per product) re-filled after a checkout
\* was stored, the last step adding a product that was already in it.
C9_Witness ==
    /\ Len(transactions) >= 1
    /\ Len(cart) = Cardinality(Products)
    /\ lastOp.op = "addToCart"
    /\ \E i \in 1..Len(cart) : cart[i].id = lastOp.id /\ cart[i].quantity >= 2

\* C10: removeFromCart(id) deletes the line with that id whatever its
\* quantity and keeps the other lines and their order; removeFromCart and
\* updateQuantity on an id that is not in the cart leave the cart unchanged.
C10_RemoveStep ==
    /\ lastOp'.op = "removeFromCart" =>
          LET k == IndexOf(cart, lastOp'.id)
          IN IF k # 0
             THEN /\ Len(cart') = Len(cart) - 1
                  /\ \A i \in 1..Len(cart') :
                        cart'[i] = IF i < k THEN cart[i] ELSE cart[i + 1]
             ELSE cart' = cart
    /\ (lastOp'.op = "updateQuantity" /\ IndexOf(cart, lastOp'.id) = 0) =>
          cart' = cart

C10_RemoveFromCart == [][C10_RemoveStep]_vars

\* C10 witness: removeFromCart has deleted one of two lines and the line left
\* still has its quantity of 2.
C10_Witness ==
    /\ lastOp.op = "removeFromCart"
    /\ Len(cart) = 1
    /\ cart[1].id # lastOp.id
    /\ cart[1].quantity = 2

\* ==================================================== checkout properties
\* C2: when the append of a checkout resolves, the cart is empty afterwards
\* and the totalAmount of the transaction the store wrote for it is the total
\* the cart had when handleCheckout was invoked, whatever cart operations ran
\* while the append was pending. The invocation keeps that cart until then.
C2_CheckoutStep ==
    /\ (lastOp'.op = "handleCheckout" /\ Len(cart) # 0) =>
          /\ Len(inflight') = Len(inflight) + 1
          /\ inflight'[Len(inflight')].cart = cart
          /\ \A i \in 1..Len(inflight) : inflight'[i] = inflight[i]
    /\ lastOp'.op = "addDocResolved" =>
          /\ cart' = <<>>
          /\ Len(transactions') = Len(transactions) + 1
          /\ \E i \in 1..Len(inflight) :
                /\ inflight' = RemoveAt(inflight, i)
                /\ transactions'[Len(transactions')].totalAmount =
                      SumOver(1..Len(inflight[i].cart), inflight[i].cart)
    /\ lastOp'.op \in CartOps => inflight' = inflight

C2_SuccessfulCheckout == [][C2_CheckoutStep]_vars

\* C2 witness: an append has resolved, the cart is empty and the stored
\* transaction holds 2 x 500 = 1000.
C2_Witness ==
    /\ lastOp.op = "addDocResolved"
    /\ cart = <<>>
    /\ Len(transactions) >= 1
    /\ transactions[Len(transactions)].totalAmount = 1000
    /\ transactions[Len(transactions)].status = "completed"

\* C3: handleCheckout on an empty cart hands nothing to the store, leaves the
\* transactions, the cart and the receipt as they are and raises the
\* empty-cart toast.
C3_EmptyStep ==
    (lastOp'.op = "handleCheckout" /\ Len(cart) = 0) =>
        /\ lastOp'.toast = "Keranjang kosong"
        /\ UNCHANGED <<cart, inflight, transactions, showReceiptModal, currentReceipt>>

C3_EmptyCheckout == [][C3_EmptyStep]_vars

\* C3 witness: handleCheckout has just run on an empty cart, with nothing
\* stored or pending.
C3_Witness ==
    /\ lastOp.op = "handleCheckout"
    /\ lastOp.toast = "Keranjang kosong"
    /\ cart = <<>>
    /\ inflight = <<>>
    /\ transactions = <<>>
    /\ ~showReceiptModal

\* C4: when the append of a checkout fails, the failure toast is raised, the
\* cart keeps exactly its lines, no receipt is opened, and handleCheckout can
\* be invoked again on that cart (it hands a new append of the same cart to
\* the store).
C4_FailStep ==
    lastOp'.op = "addDocRejected" =>
        /\ lastOp'.toast = "Transaksi gagal"
        /\ UNCHANGED <<cart, showReceiptModal, currentReceipt>>

C4_RetryPossible ==
    (lastOp.op = "addDocRejected" /\ Len(cart) # 0) =>
        ENABLED (/\ handleCheckout
                 /\ Len(inflight') = Len(inflight) + 1
                 /\ inflight'[Len(inflight')].cart = cart)

C4_FailedAppend == [][C4_FailStep]_vars /\ []C4_RetryPossible

\* C4 witness: an append has failed while the cart holds two lines and no
\* receipt is open.
C4_Witness ==
    /\ lastOp.op = "addDocRejected"
    /\ Len(cart) = 2
    /\ ~showReceiptModal
    /\ currentReceipt = NoReceipt

\* C5: the items and totalAmount handed to the store are those of the cart
\* lines when handleCheckout was invoked, and nothing that runs afterwards
\* changes them: a pending append keeps its data, the document the store
\* writes holds that data, and a stored document never changes.
C5_SnapshotStep ==
    /\ (lastOp'.op = "handleCheckout" /\ Len(cart) # 0) =>
          LET new == inflight'[Len(inflight')].transaction
          IN /\ Len(new.items) = Len(cart)
             /\ \A i \in 1..Len(cart) :
                   /\ new.items[i].id = cart[i].id
                   /\ new.items[i].name = cart[i].name
                   /\ new.items[i].price = cart[i].price
                   /\ new.items[i].quantity = cart[i].quantity
             /\ new.totalAmount = SumOver(1..Len(cart), cart)
    /\ \A t \in 1..Len(transactions) :
          /\ t <= Len(transactions')
          /\ transactions'[t] = transactions[t]
    /\ Len(transactions') > Len(transactions) =>
          /\ Len(transactions') = Len(transactions) + 1
          /\ \E i \in 1..Len(inflight) :
                /\ inflight' = RemoveAt(inflight, i)
                /\ transactions'[Len(transactions')].items =
                      inflight[i].transaction.items
                /\ transactions'[Len(transactions')].totalAmount =
                      inflight[i].transaction.totalAmount
    /\ Len(transactions') = Len(transactions) =>
          \/ inflight' = inflight
          \/ /\ Len(inflight') = Len(inflight) + 1
             /\ \A i \in 1..Len(inflight) : inflight'[i] = inflight[i]
          \/ \E i \in 1..Len(inflight) : inflight' = RemoveAt(inflight, i)

C5_ItemsAreSnapshot == [][C5_SnapshotStep]_vars

\* C5 witness: a cart operation has run after a transaction was stored, and
\* the cart now differs from the stored items.
C5_Witness ==
    /\ lastOp.op \in CartOps
    /\ Len(cart) # 0
    /\ Len(transactions) >= 1
    /\ transactions[1].items # cart
    /\ transactions[1].totalAmount # cartTotal(cart)

\* C6: handleCheckout itself neither clears the cart nor touches the receipt;
\* the receipt is set and opened only by the step in which an append
\* resolves, with the id of the document the store wrote for that append; a
\* receipt on display is that of a stored transaction.
C6_ReceiptStep ==
    /\ lastOp'.op = "handleCheckout" =>
          UNCHANGED <<cart, showReceiptModal, currentReceipt>>
    /\ (currentReceipt' # currentReceipt \/ (showReceiptModal' /\ ~showReceiptModal)) =>
          /\ lastOp'.op = "addDocResolved"
          /\ Len(transactions') = Len(transactions) + 1
          /\ currentReceipt'.id = transactions'[Len(transactions')].id
          /\ \A t \in 1..Len(transactions) :
                transactions[t].id # currentReceipt'.id
    /\ lastOp'.op = "addDocResolved" =>
          /\ showReceiptModal'
          /\ cart' = <<>>
          /\ currentReceipt'.id = transactions'[Len(transactions')].id

C6_ReceiptStored ==
    (showReceiptModal /\ currentReceipt # NoReceipt) =>
        \E t \in 1..Len(transactions) : transactions[t].id = currentReceipt.id

C6_ReceiptAfterAppend == [][C6_ReceiptStep]_vars /\ []C6_ReceiptStored

\* C6 witness: the receipt of the transaction just stored is on display.
C6_Witness ==
    /\ lastOp.op = "addDocResolved"
    /\ showReceiptModal
    /\ Len(transactions) >= 1
    /\ currentReceipt.id = transactions[Len(transactions)].id
    /\ cart = <<>>


\* ========================================================= payment method
\* C11: the paymentMethod of the transaction a checkout hands to the store
\* is the tender of the tab the cashier selected: "Cash" from the cash tab,
\* and not "Cash" from the card/QRIS tab.
C11_TenderStep ==
    (lastOp'.op = "handleCheckout" /\ Len(inflight') = Len(inflight) + 1) =>
        LET stored == StoredDoc(Len(transactions) + 1,
                                inflight'[Len(inflight')].transaction)
        IN /\ paymentTab = "cash" => stored.paymentMethod = "Cash"
           /\ paymentTab = "card" => stored.paymentMethod # "Cash"
C11_TenderIsSelected == [][C11_TenderStep]_vars


\* ========================================================== receipt totals
\* The sum of price * quantity over the lines of a receipt or a transaction.
LinesTotal(items) == SumOver(1..Len(items), items)

\* What a receipt must satisfy: its lines add up to its total, which is the
\* total of the stored transaction of its id.
ReceiptAddsUp(receipt) ==
    /\ receipt.id \in 1..Len(transactions)
    /\ LinesTotal(receipt.items) = receipt.totalAmount
    /\ receipt.totalAmount = transactions[receipt.id].totalAmount

\* C12: the lines of every stored transaction add up to its totalAmount,
\* and so do the lines of the receipt the POS shows after the checkout and
\* of the receipt the table rebuilds from a row, whose totalAmount is that
\* of the stored transaction.
C12_TotalsAgree ==
    /\ \A i \in 1..Len(transactions) :
           LinesTotal(transactions[i].items) = transactions[i].totalAmount
    /\ currentReceipt # NoReceipt => ReceiptAddsUp(currentReceipt)
    /\ selectedTransaction # NoTransaction =>
           ReceiptAddsUp(prepareReceiptData(selectedTransaction))

\* The POS shows the receipt of a checkout of two units while the table
\* shows the receipt rebuilt from the row of the same transaction.
C12_Witness ==
    /\ currentReceipt # NoReceipt
    /\ showReceiptModal
    /\ CartUnits(currentReceipt.items) = 2
    /\ tableShowReceiptModal
    /\ selectedTransaction # NoTransaction
    /\ selectedTransaction.id = currentReceipt.id


\* ====================================================== the two receipts
\* C13: the receipt the POS built right after a checkout and the receipt the
\* table rebuilds from the row of the same transaction agree on id, items,
\* totalAmount, cashier, paymentMethod, timestamp (the transaction's
\* created_at) and the static store metadata.
C13_ReceiptsAgree ==
    (/\ currentReceipt # NoReceipt
     /\ selectedTransaction # NoTransaction
     /\ selectedTransaction.id = currentReceipt.id) =>
        LET rebuilt == prepareReceiptData(selectedTransaction)
        IN /\ rebuilt.id = currentReceipt.id
           /\ rebuilt.items = currentReceipt.items
           /\ rebuilt.totalAmount = currentReceipt.totalAmount
           /\ rebuilt.cashier = currentReceipt.cashier
           /\ rebuilt.paymentMethod = currentReceipt.paymentMethod
           /\ rebuilt.timestamp = currentReceipt.timestamp
           /\ rebuilt.timestamp = transactions[currentReceipt.id].created_at
           /\ rebuilt.storeName = currentReceipt.storeName
           /\ rebuilt.storeAddress = currentReceipt.storeAddress
           /\ rebuilt.storePhone = currentReceipt.storePhone


\* ================================================== requests and the store
CheckoutOps == CartOps \cup {"handleCheckout"}

\* C14: the POS view has at most one store request outstanding, and while
\* an append is unresolved no cart operation and no checkout runs.
C14_SuspendedStep ==
    /\ Len(inflight') <= 1
    /\ Len(inflight) > 0 => lastOp'.op \notin CheckoutOps
C14_ViewSuspended == [][C14_SuspendedStep]_vars


\* The records a step found in the collection are still there, unchanged.
RecordsKept ==
    /\ Len(transactions') >= Len(transactions)
    /\ \A i \in 1..Len(transactions) : transactions'[i] = transactions[i]

\* The step stored exactly one record: the data of a pending append, with
\* status 'completed'.
OneRecordAdded ==
    /\ Len(transactions') = Len(transactions) + 1
    /\ transactions'[Len(transactions')].status = "completed"
    /\ \E i \in 1..Len(inflight) :
           /\ inflight' = RemoveAt(inflight, i)
           /\ transactions'[Len(transactions')] =
                  StoredDoc(Len(transactions) + 1, inflight[i].transaction)

\* C15 as stated: the collection changes only through a successful
\* checkout, which adds exactly one record with status 'completed'; cart
\* operations, closing the receipt and a failed or empty checkout leave it
\* unchanged; earlier records keep all their fields.
C15_OriginalStep ==
    /\ RecordsKept
    /\ lastOp'.op = "addDocResolved" => OneRecordAdded
    /\ lastOp'.op # "addDocResolved" => transactions' = transactions
C15_OnlySuccessfulCheckout == [][C15_OriginalStep]_vars

\* C15 as the code has it: the collection changes only when the store
\* settles an append that handleCheckout issued; such a step adds exactly
\* one record with status 'completed', the data of that append; a resolved
\* append always adds its record, a rejected one adds it or adds nothing;
\* cart operations, closing the receipt, an empty checkout and the issuing
\* of an append leave the collection unchanged; earlier records keep all
\* their fields.
C15_AmendedStep ==
    /\ RecordsKept
    /\ lastOp'.op = "addDocResolved" => OneRecordAdded
    /\ lastOp'.op = "addDocRejected" =>
           transactions' = transactions \/ OneRecordAdded
    /\ lastOp'.op \notin {"addDocResolved", "addDocRejected"} =>
           transactions' = transactions
C15_OnlySettledAppends == [][C15_AmendedStep]_vars

\* A second checkout has been stored after the first.
C15_Witness ==
    /\ lastOp.op = "addDocResolved"
    /\ Len(transactions) = 2
    /\ transactions[2].status = "completed"

\* C16: appends are issued by handleCheckout only, one for an invocation
\* with a cart that is not empty; the catch block of a rejected append
\* issues none, so that nothing is pending after a failure until the
\* cashier invokes handleCheckout again.
C16_IssueStep ==
    /\ Len(inflight') <= Len(inflight) + 1
    /\ Len(inflight') > Len(inflight) => lastOp'.op = "handleCheckout"
    /\ lastOp'.op = "addDocRejected" => Len(inflight') = Len(inflight) - 1
    /\ (lastOp.op = "addDocRejected" /\ inflight = <<>>
          /\ lastOp'.op # "handleCheckout") => inflight' = <<>>
C16_NoAutomaticRetry == [][C16_IssueStep]_vars

\* An append was rejected: nothing is pending and the cart is still there.
C16_Witness ==
    /\ lastOp.op = "addDocRejected"
    /\ inflight = <<>>
    /\ Len(cart) > 0

\* Two stored transactions of the same items and total under two ids.
Duplicates(i, j) ==
    /\ i # j
    /\ transactions[i].id # transactions[j].id
    /\ transactions[i].items = transactions[j].items
    /\ transactions[i].totalAmount = transactions[j].totalAmount

\* Nothing looks for a stored duplicate: a checkout of a cart issues its
\* append, and the store settles every pending append by a new record.
C17_NoDedup ==
    /\ Len(cart) # 0 =>
           ENABLED (handleCheckout /\ Len(inflight') = Len(inflight) + 1)
    /\ \A i \in 1..Len(inflight) :
           ENABLED (addDocResolved(i) /\ Len(transactions') = Len(transactions) + 1)

\* A rejected append that the store wrote keeps the cart as it was.
C17_PersistedFailureStep ==
    (lastOp'.op = "addDocRejected" /\ Len(transactions') > Len(transactions)) =>
        cart' = cart

\* C17: when the store persists an append but reports its failure the cart
\* is preserved, and a checkout invoked again appends a second record: no
\* idempotency key stops it.
C17_RetryDuplicates == []C17_NoDedup /\ [][C17_PersistedFailureStep]_vars

\* The append was stored and rejected, the cashier checked out again and the
\* retried append was stored too: two records of one sale, the cart still
\* filled and no receipt ever shown.
C17_Witness ==
    /\ Len(transactions) = 2
    /\ Duplicates(1, 2)
    /\ currentReceipt = NoReceipt
    /\ lastOp.op = "addDocRejected"
    /\ ItemsCopy(cart) = transactions[1].items


\* ==================================================== monthly aggregation
\* The sum of the total_price of the documents of a set of positions, a
\* missing total_price counting as 0.
RECURSIVE SumPrices(_, _)
SumPrices(S, docs) ==
    IF S = {} THEN 0
    ELSE LET i == CHOOSE x \in S : TRUE
         IN Price(docs[i].data) + SumPrices(S \ {i}, docs)

\* The sum of a field over the rows of a positions set.
RECURSIVE SumRows(_, _, _)
SumRows(S, rows, field) ==
    IF S = {} THEN 0
    ELSE LET i == CHOOSE x \in S : TRUE
         IN rows[i][field] + SumRows(S \ {i}, rows, field)

\* The positions of the documents of a month (0-based) in a snapshot.
DocsOfMonth(docs, month) ==
    {i \in 1..Len(docs) : getMonth(docs[i].data) = month}

\* The chart has loaded the snapshot of its year: twelve buckets in month
\* order, each the sum of total_price of the orders of its month.
C20_ChartBuckets ==
    (chartMounted /\ chartPending = <<>>) =>
        LET docs == OrdersOfYear(orders, chartSelectedYear)
        IN /\ Len(chartData) = Len(ChartMonths)
           /\ \A m \in 1..Len(ChartMonths) :
                  /\ chartData[m].name = ChartMonths[m]
                  /\ chartData[m].revenue =
                         SumPrices(DocsOfMonth(docs, m - 1), docs)
           /\ SumRows(1..Len(chartData), chartData, "revenue") =
                  SumPrices(1..Len(docs), docs)

\* The report page has generated its reports from the snapshot of the
\* orders: one report for each month that has an order, its totalSales the
\* number and its totalRevenue the total_price sum of the month's orders.
C20_GeneratedReports ==
    (/\ reportMounted
     /\ reportPending = <<>>
     /\ ReportsOfYear(storedReports, reportSelectedYear) = <<>>) =>
        LET docs == CountedOrdersOfYear(orders, reportSelectedYear)
        IN /\ \A i \in 1..Len(monthlyReports) :
                  LET r == monthlyReports[i]
                  IN /\ r.totalSales = Cardinality(DocsOfMonth(docs, r.month))
                     /\ r.totalSales >= 1
                     /\ r.totalRevenue =
                            SumPrices(DocsOfMonth(docs, r.month), docs)
                     /\ \A j \in 1..Len(monthlyReports) :
                            monthlyReports[j].month = r.month => j = i
           /\ \A d \in 1..Len(docs) :
                  \E i \in 1..Len(monthlyReports) :
                      monthlyReports[i].month = getMonth(docs[d].data)
           /\ SumRows(1..Len(monthlyReports), monthlyReports, "totalSales") =
                  Len(docs)
           /\ SumRows(1..Len(monthlyReports), monthlyReports, "totalRevenue") =
                  SumPrices(1..Len(docs), docs)

\* C20: the monthly aggregations count each returned order exactly once, in
\* the bucket of the month of its created_at: the chart shows twelve buckets
\* in month order whose revenues add up to the sum of total_price (0 when
\* the field is missing), and generateReportsFromOrders yields per-month
\* reports whose totalSales add up to the number of orders and whose
\* totalRevenue add up to the sum of total_price.
C20_MonthlyAggregation == C20_ChartBuckets /\ C20_GeneratedReports

\* Both views show the aggregation of two orders of one month, one of them
\* without total_price.
C20_Witness ==
    /\ chartMounted /\ chartPending = <<>>
    /\ reportMounted /\ reportPending = <<>>
    /\ Len(orders) = 2
    /\ orders[1].created_at = orders[2].created_at
    /\ InYear(orders[1], Today.year)
    /\ "total_price" \in DOMAIN orders[1]
    /\ "total_price" \notin DOMAIN orders[2]
    /\ Len(monthlyReports) = 1
    /\ monthlyReports[1].totalSales = 2
    /\ chartData[getMonth(orders[1]) + 1].revenue = orders[1].total_price


\* ============================================================ failed reads
FellBack == {v \in ReportingViews : readFailure[v] = "synthetic"}
AllFailed == \A v \in ReportingViews : readFailure[v] # "none"

\* C18 as stated: of the Sales Report, the Dashboard and the Monthly Chart,
\* exactly two replace what they display by synthetic data when a store
\* read fails.
C18_TwoViewsFallBack == AllFailed => Cardinality(FellBack) = 2

\* C18 as the code has it: exactly one of the three views, the Sales
\* Report, replaces what it displays by synthetic data when a store read
\* fails; the Dashboard and the Monthly Chart keep what they displayed.
C18_OnlyReportFallsBack ==
    /\ \A v \in ReportingViews :
           readFailure[v] # "none" =>
               (readFailure[v] = "synthetic" <=> v = "report")
    /\ AllFailed => Cardinality(FellBack) = 1

\* A read has failed in each of the three views.
C18_Witness == AllFailed /\ lastOp.op = "reportRejected" /\ IsMock(monthlyReports)

\* C19: a mounted view whose issued reads have all resolved, with
\* documents, empty or by an error, does not show its loading flag.
C19_LoadingCleared ==
    /\ ~productsPending => ~posLoading
    /\ (tableMounted /\ tablePending = <<>>) => ~tableLoading
    /\ (dashMounted /\ dashPending = NoFetch) => ~dashLoading
    /\ (chartMounted /\ chartPending = <<>>) => ~chartLoading
    /\ (reportMounted /\ reportPending = <<>>) => ~reportLoading

\* The last of the seven days of the dashboard has resolved.
C19_Witness ==
    /\ dashMounted
    /\ lastOp.op = "dashDayResolved"
    /\ dashPending = NoFetch
    /\ ~dashLoading
    /\ Len(dailySalesData) = DaysShown

\* ==================================================== the selected month
\* (year, month) as a count of calendar months.
MonthNumber(year, month) == 12 * year + month

\* C21: in the sales report the selected month index stays in 0..11; a
\* previous (next) step moves (year, month) back (forward) by exactly one
\* calendar month, wrapping the year at the ends, so that next followed by
\* previous restores the selection.
C21_NavigationStep ==
    /\ reportSelectedMonth' \in 0..11
    /\ lastOp'.op = "handlePreviousMonth" =>
           MonthNumber(reportSelectedYear', reportSelectedMonth')
               = MonthNumber(reportSelectedYear, reportSelectedMonth) - 1
    /\ lastOp'.op = "handleNextMonth" =>
           MonthNumber(reportSelectedYear', reportSelectedMonth')
               = MonthNumber(reportSelectedYear, reportSelectedMonth) + 1
C21_MonthNavigation ==
    /\ reportSelectedMonth \in 0..11
    /\ [][C21_NavigationStep]_vars
C21_Witness ==
    /\ lastOp.op = "handlePreviousMonth"
    /\ reportSelectedMonth = 11
    /\ reportSelectedYear = Today.year - 1

\* ===================================================== the receipt number
\* n is '#' followed by the last 6 characters of id in upper case (by all
\* of id when it is shorter).
IsNumberOf(n, id) ==
    LET k == IF Len(id) < 6 THEN Len(id) ELSE 6
    IN /\ Len(n) = k + 1
       /\ n[1] = "#"
       /\ \A j \in 1..k :
              LET c == id[Len(id) - k + j]
              IN n[1 + j] = (IF c = "a" THEN "A" ELSE c)

\* C22: the receipt number of a transaction is '#' followed by the last 6
\* characters of its id in upper case, the whole id when it is shorter, and
\* the row of the table and the receipt modal show the same number for the
\* same transaction.
C22_ReceiptNumber ==
    /\ \A i \in 1..Len(tableTransactions) :
           IsNumberOf(rowNumber(tableTransactions[i]),
                      docIds[tableTransactions[i].id])
    /\ (tableShowReceiptModal /\ selectedTransaction # NoTransaction) =>
           LET receipt == prepareReceiptData(selectedTransaction)
           IN /\ IsNumberOf(receiptNumber(receipt),
                            docIds[selectedTransaction.id])
              /\ \A i \in 1..Len(tableTransactions) :
                     tableTransactions[i].id = receipt.id =>
                         rowNumber(tableTransactions[i]) = receiptNumber(receipt)
C22_Witness ==
    /\ tableShowReceiptModal
    /\ lastOp.op = "viewReceipt"
    /\ Len(docIds[selectedTransaction.id]) > 6
    /\ \E j \in 1..6 : receiptNumber(prepareReceiptData(selectedTransaction))[1 + j] = "A"
    /\ \E i \in 1..Len(tableTransactions) :
           tableTransactions[i].id = selectedTransaction.id

\* ============================================ checkouts on one pending cart
\* C23: with a store that never fails, one non-empty cart yields at most one
\* persisted transaction: a checkout invoked again while the first append is
\* unresolved issues no second append of the same items, so that when an
\* append is stored no other append of the same cart remains to be stored.
C23_SecondCheckoutStep ==
    /\ (lastOp'.op = "handleCheckout"
        /\ \E i \in 1..Len(inflight) : inflight[i].cart = cart) =>
           inflight' = inflight
    /\ lastOp'.op = "addDocResolved" =>
           \A j \in 1..Len(inflight') :
               inflight'[j].transaction.items
                   # transactions'[Len(transactions')].items
C23_OneTransactionPerCart == [][C23_SecondCheckoutStep]_vars

\* C24: every cart line that the cart clear of a successful checkout
\* discards is contained, with the same product id and quantity, in the
\* transaction that this checkout persisted.
C24_ClearStep ==
    lastOp'.op = "addDocResolved" =>
        \A k \in 1..Len(cart) :
            \E n \in 1..Len(transactions'[Len(transactions')].items) :
                LET item == transactions'[Len(transactions')].items[n]
                IN item.id = cart[k].id /\ item.quantity = cart[k].quantity
C24_ClearedLinesSold == [][C24_ClearStep]_vars

\* ============================================== the rows of the table
\* The stored transactions that match the dates on display.
MatchingDocs ==
    {d \in Range(transactions) :
        LET base == baseQuery(startDate, endDate)
        IN ~base.filtered
               \/ (d.created_at >= base.from /\ d.created_at <= base.to)}

\* No fetch of the table is outstanding.
TableSettled == tableMounted /\ tablePending = <<>>

\* C25: after the initial load and after every change of the date filter
\* the rows shown are the first page (the newest pageSize transactions) that
\* match the filter on display, and the page indicator is 1.
C25_FirstPageShown ==
    TableSettled =>
        /\ tableTransactions = Limit(OrderByCreatedAtDesc(MatchingDocs), pageSize)
        /\ currentPage = 1

\* C26: with a store whose contents do not change, the table shows an empty
\* list only if no stored transaction matches the dates on display, and the
\* previous page can be requested only when there is an earlier page, that
\* is a matching transaction before the first row on display.
C26_EmptyOnlyWithoutMatch ==
    /\ (TableSettled /\ tableTransactions = <<>>) => MatchingDocs = {}
    /\ (TableSettled /\ ENABLED previousPage) =>
           \E d \in MatchingDocs : Newer(d, tableTransactions[1])

\* ================================================== the year on display
\* C27: once all outstanding reads of MonthlySalesChart and of
\* SalesRevenueReport have resolved, the chart data and the monthly reports
\* on display are those of the selected year, whatever the order of the
\* responses and whether or not a read failed.
C27_SelectedYearShown ==
    /\ (chartMounted /\ chartPending = <<>>) =>
           chartData =
               (LET docs == OrdersOfYear(orders, chartSelectedYear)
                IN IF docs = <<>> THEN initialData ELSE ChartDataOf(docs))
    /\ (reportMounted /\ reportPending = <<>>) =>
           \A i \in 1..Len(monthlyReports) :
               monthlyReports[i].year = reportSelectedYear

\* ============================================ the flag and the open reads
\* C28: in every view, whenever the loading flag is false no read issued by
\* that view is unresolved; in particular the completion of one of the two
\* fetches of SalesRevenueReport, which share one flag, never marks the page
\* as loaded while the other is in flight.
C28_LoadedMeansSettled ==
    /\ ~posLoading => ~productsPending
    /\ (tableMounted /\ ~tableLoading) => tablePending = <<>>
    /\ (dashMounted /\ ~dashLoading) => dashPending = NoFetch
    /\ (chartMounted /\ ~chartLoading) => chartPending = <<>>
    /\ (reportMounted /\ ~reportLoading) => reportPending = <<>>

\* ===================================================== the layout's guard
\* C29: KasirLayout renders the cashier screens only when authentication
\* has finished, a user is signed in and that user's email is in the admin
\* list; after the signed-in user changes no render shows them to a user who
\* is not an admin on the strength of the previous user's isAdmin.
C29_ChildrenOnlyForAdmins ==
    layoutShown = "children" =>
        /\ ~authLoading
        /\ authUser # NoUser
        /\ authUser.email \in adminEmails

\* ========================================= the report page and the chart
\* The revenue the report page shows for a month (0-based): the totalRevenue
\* of the month's report, nothing (0) for a month without a report.
ReportRevenueOf(month) ==
    SumRows({i \in 1..Len(monthlyReports) : monthlyReports[i].month = month},
            monthlyReports, "totalRevenue")

BothAggregated ==
    /\ chartMounted /\ chartPending = <<>>
    /\ reportMounted /\ reportPending = <<>>
    /\ chartSelectedYear = reportSelectedYear
    /\ ReportsOfYear(storedReports, reportSelectedYear) = <<>>
    /\ \A v \in ReportingViews : readFailure[v] = "none"

\* C30: for the same selected year and the same orders collection, without
\* monthly_reports documents and without a failed read, the revenue the
\* report page shows for each month equals the revenue the chart shows for
\* that month.
C30_ReportMatchesChart ==
    BothAggregated =>
        \A m \in 1..Len(ChartMonths) :
            ReportRevenueOf(m - 1) = chartData[m].revenue

====
